---- MODULE Spec2Model ----
(***************************************************************************)
(* Verification model of aegisquant-core: the simulated execution gateway, *)
(* the risk manager, the event bus and timer manager, the backtest engine  *)
(* loop and the parallel parameter optimizer.                              *)
(*                                                                         *)
(* Numbers: f64 money values are modelled in fixed point (integers in a    *)
(* money unit); a fractional rate such as slippage 0.001 is the record     *)
(* [num |-> 1, den |-> 1000] and multiplying by it rounds toward minus     *)
(* infinity.  Quantities are whole units.  Wall-clock instants are         *)
(* integers in clock units, ClockUnitsPerSecond of them to the second.     *)
(***************************************************************************)
EXTENDS Integers, Sequences, FiniteSets, TLC

VARIABLES
    gw,          \* SimulatedGateway under test (gateway.rs)
    market,      \* observer: last price handed to the gateway, per symbol
    gwLast,      \* observer: outcome of the last gateway call
    gwCalls,     \* number of gateway calls made so far
    rm,          \* RiskManager under test (risk.rs)
    now,         \* the wall clock read by Instant::now(), in clock units
    okTimes,     \* observer: instants of the check_throttle calls that returned Ok
    rmLast,      \* observer: outcome of the last risk-manager call
    rmCalls,     \* number of risk-manager calls made so far
    bus,         \* EventBus (event_bus.rs)
    chans,       \* the crossbeam channel of each subscription, by subscription id
    nextSubId,   \* NEXT_SUBSCRIPTION_ID
    received,    \* observer: events taken out of each subscription, in order
    busObs,      \* observer: what the publishes so far should have delivered
    busCalls,    \* number of event-bus calls made so far
    busLock,     \* holder of the mutex around a shared bus (0: free)
    pubPc,       \* position of each publisher thread
    pubSent,     \* number of events each publisher thread has published
    tm,          \* TimerManager (event_bus.rs)
    nextTimerId, \* NEXT_TIMER_ID
    tmObs,       \* observer: per timer id, how it was scheduled and what it emitted
    tmCalls,     \* number of timer-manager calls made so far
    eng,         \* BacktestEngine (engine.rs)
    engPc,       \* where the engine's caller is: new, loaded, running, done, failed
    engRes,      \* what the last run() returned
    engObs,      \* observer: what happened on the ticks of the current run
    engRuns,     \* number of run() calls started
    wall,        \* the wall clock read by the engine's risk manager
    opt,         \* Optimizer (optimizer.rs)
    optIn,       \* the sweep's inputs: ticks and parameter range
    optPc,       \* where the optimizer's caller is: idle, sweeping, collected
    tasks,       \* per parameter combination: the worker's engine and position
    optResults,  \* what each finished sweep returned
    optWall,     \* the wall clock read by the workers' risk managers
    l1,          \* L1SimulatedGateway (l1_gateway.rs)
    l1Last,      \* observer: the last execute_order call and its FillResult
    l1Calls,     \* number of L1 gateway calls made so far
    wm,          \* WarmupManager under test (warmup.rs)
    wmK,         \* the warmup_bars the manager was created with
    wmObs,       \* observer: ticks since construction or reset, last call and its result
    wmCalls,     \* number of warmup-manager calls made so far
    s3Trace,     \* observer: the calls made on the gateway of the worked example, in order
    strat,       \* DualMAStrategy under test (section 4.4)
    stratObs,    \* observer: the last non-None signal, and whether one came twice in a row
    stratTicks,  \* number of ticks handed to the strategy so far
    dlLoader,    \* DataLoader (data_loader.rs)
    dlIn,        \* the three columns handed to load_from_vectors
    dlOut,       \* what load_from_vectors returned
    dlPc,        \* where the loader's caller is: ready, loaded
    db,          \* the SQLite database behind a PersistenceManager (persistence.rs)
    dbLast,      \* observer: the last call and the positions table before it
    dbCalls,     \* number of persistence calls made so far
    LOG_CALLBACK, \* the process-wide callback pointer (logger.rs), with the number of its registration
    logPc,       \* position of each logging thread: idle, started, loaded
    logPtr,      \* the pointer each logging thread loaded
    logObs,      \* observer: registrations, clears and invocations so far
    logSteps,    \* number of logger calls started so far
    lat,         \* the LatencyTracker's atomics (latency.rs)
    recPc,       \* position of the thread inside record
    recLocal,    \* record's locals: latency_ns, current_min/current_max, index
    statPc,      \* position of the thread inside get_stats
    statLocal,   \* get_stats's locals: the values loaded so far
    statOut,     \* what the last get_stats call returned
    resetPc,     \* position of the thread inside reset
    latObs,      \* observer: the latencies handed to record, and the calls begun
    gcIn,        \* the ParameterRange handed to generate_combinations
    gcPc,        \* position inside generate_combinations' loops
    gcLocal,     \* its locals: short_ma, long_ma, ps, and the lengths of sizes and combinations
    EMERGENCY_HALT  \* the process-wide halt flag (emergency.rs)

gwVars == <<gw, market, gwLast, gwCalls>>

rmVars == <<rm, now, okTimes, rmLast, rmCalls>>

busVars == <<bus, chans, nextSubId, received, busObs, busCalls, busLock, pubPc, pubSent>>

tmVars == <<tm, nextTimerId, tmObs, tmCalls>>

engVars == <<eng, engPc, engRes, engObs, engRuns, wall>>

optVars == <<opt, optIn, optPc, tasks, optResults, optWall>>

l1Vars == <<l1, l1Last, l1Calls>>

wmVars == <<wm, wmK, wmObs, wmCalls>>

s3Vars == <<s3Trace>>

stratVars == <<strat, stratObs, stratTicks>>

dlVars == <<dlLoader, dlIn, dlOut, dlPc>>

dbVars == <<db, dbLast, dbCalls>>

logVars == <<LOG_CALLBACK, logPc, logPtr, logObs, logSteps>>

latVars == <<lat, recPc, recLocal, statPc, statLocal, statOut, resetPc, latObs>>

gcVars == <<gcIn, gcPc, gcLocal>>

haltVars == <<EMERGENCY_HALT>>

vars == <<gwVars, rmVars, busVars, tmVars, engVars, optVars, l1Vars, wmVars, s3Vars, stratVars, dlVars, dbVars, logVars, latVars, gcVars, haltVars>>

\* What the actions of one component leave alone: every other component.
notGw == <<rmVars, busVars, tmVars, engVars, optVars, l1Vars, wmVars, s3Vars, stratVars, dlVars, dbVars, logVars, latVars, gcVars, haltVars>>

notRm == <<gwVars, busVars, tmVars, engVars, optVars, l1Vars, wmVars, s3Vars, stratVars, dlVars, dbVars, logVars, latVars, gcVars, haltVars>>

notBus == <<gwVars, rmVars, tmVars, engVars, optVars, l1Vars, wmVars, s3Vars, stratVars, dlVars, dbVars, logVars, latVars, gcVars, haltVars>>

notTm == <<gwVars, rmVars, busVars, engVars, optVars, l1Vars, wmVars, s3Vars, stratVars, dlVars, dbVars, logVars, latVars, gcVars, haltVars>>

notEng == <<gwVars, rmVars, busVars, tmVars, optVars, l1Vars, wmVars, s3Vars, stratVars, dlVars, dbVars, logVars, latVars, gcVars, haltVars>>

notOpt == <<gwVars, rmVars, busVars, tmVars, engVars, l1Vars, wmVars, s3Vars, stratVars, dlVars, dbVars, logVars, latVars, gcVars, haltVars>>

notL1 == <<gwVars, rmVars, busVars, tmVars, engVars, optVars, wmVars, s3Vars, stratVars, dlVars, dbVars, logVars, latVars, gcVars, haltVars>>

notGc == <<gwVars, rmVars, busVars, tmVars, engVars, optVars, l1Vars, wmVars, s3Vars, stratVars, dlVars, dbVars, logVars, latVars, haltVars>>

notLat == <<gwVars, rmVars, busVars, tmVars, engVars, optVars, l1Vars, wmVars, s3Vars, stratVars, dlVars, dbVars, logVars, gcVars, haltVars>>

notLog == <<gwVars, rmVars, busVars, tmVars, engVars, optVars, l1Vars, wmVars, s3Vars, stratVars, dlVars, dbVars, latVars, gcVars, haltVars>>

notDb == <<gwVars, rmVars, busVars, tmVars, engVars, optVars, l1Vars, wmVars, s3Vars, stratVars, dlVars, logVars, latVars, gcVars, haltVars>>

notDl == <<gwVars, rmVars, busVars, tmVars, engVars, optVars, l1Vars, wmVars, s3Vars, stratVars, dbVars, logVars, latVars, gcVars, haltVars>>

notStrat == <<gwVars, rmVars, busVars, tmVars, engVars, optVars, l1Vars, wmVars, s3Vars, dlVars, dbVars, logVars, latVars, gcVars, haltVars>>

notS3 == <<gwVars, rmVars, busVars, tmVars, engVars, optVars, l1Vars, wmVars, stratVars, dlVars, dbVars, logVars, latVars, gcVars, haltVars>>

\* What the calls of the worked example leave alone.
notGwS3 == <<rmVars, busVars, tmVars, engVars, optVars, l1Vars, wmVars, stratVars, dlVars, dbVars, logVars, latVars, gcVars, haltVars>>

notWm == <<gwVars, rmVars, busVars, tmVars, engVars, optVars, l1Vars, s3Vars, stratVars, dlVars, dbVars, logVars, latVars, gcVars, haltVars>>

(***************************************************************************)
(* Bounds of the model                                                     *)
(***************************************************************************)
MaxGwCalls == 4

MaxRmCalls == 4

MaxNow == 4

ClockUnitsPerSecond == 2

MaxSubs == 2

MaxPublish == 3

MaxBusCalls == 7

MaxCapacity == 2

EventsPerThread == 2

NumThreads == 2

MaxTimers == 2

MaxTime == 5

MaxTmCalls == 5

NumTicks == 4

MaxRuns == 2

MaxWall == 3

MaxSweeps == 2

MaxBookLevels == 2

MaxL1Calls == 3

MaxWmCalls == 6

MaxS3Calls == 3

MaxStratTicks == 5

MaxColumnLen == 3

MaxDbCalls == 3

NumLoggers == 2

MaxLogSteps == 5

MaxRecords == 2

IntBits == 4

MaxCombinations == 4

(***************************************************************************)
(* Helpers                                                                 *)
(***************************************************************************)
Frac(n, d) == [num |-> n, den |-> d]

MulFrac(x, f) == (x * f.num) \div f.den

EmptyMap == [k \in {} |-> 0]

Put(m, k, v) == [x \in (DOMAIN m) \cup {k} |-> IF x = k THEN v ELSE m[x]]

Min(a, b) == IF a < b THEN a ELSE b

Abs(a) == IF a < 0 THEN 0 - a ELSE a

RECURSIVE SumOver(_, _)
SumOver(f, S) ==
    IF S = {} THEN 0
    ELSE LET k == CHOOSE x \in S : TRUE
         IN  f[k] + SumOver(f, S \ {k})

(***************************************************************************)
(* types.rs                                                                *)
(***************************************************************************)
DIRECTION_BUY == 1

DIRECTION_SELL == -1

OrderRequest(sym, qty, dir) == [symbol |-> sym, quantity |-> qty, direction |-> dir]

NoOrder == OrderRequest("", 0, 0)

(***************************************************************************)
(* gateway.rs: SimulatedGateway                                            *)
(***************************************************************************)
GatewayNew(initial_balance, slippage, commission_rate) ==
    [ slippage          |-> slippage,
      commission_rate   |-> commission_rate,
      current_prices    |-> EmptyMap,
      positions         |-> EmptyMap,
      balance           |-> initial_balance,
      initial_balance   |-> initial_balance,
      next_order_id     |-> 1,
      pending_fills     |-> << >>,
      current_timestamp |-> 0 ]

set_timestamp(g, timestamp) == [g EXCEPT !.current_timestamp = timestamp]

calculate_fill_price_without_slippage(g, base_price, direction) == base_price

calculate_fill_price(g, base_price, direction) ==
    LET slippage_amount == MulFrac(base_price, g.slippage)
    IN  IF direction = DIRECTION_BUY
        THEN base_price + slippage_amount
        ELSE base_price - slippage_amount

calculate_commission(g, trade_value) == MulFrac(trade_value, g.commission_rate)

calculate_unrealized_pnl(g, position) ==
    IF position.symbol \in DOMAIN g.current_prices
    THEN (g.current_prices[position.symbol] - position.average_price) * position.quantity
    ELSE 0

total_unrealized_pnl(g) ==
    SumOver([s \in DOMAIN g.positions |-> calculate_unrealized_pnl(g, g.positions[s])],
            DOMAIN g.positions)

total_realized_pnl(g) ==
    SumOver([s \in DOMAIN g.positions |-> g.positions[s].realized_pnl],
            DOMAIN g.positions)

\* The position after a fill of order.quantity at fill_price (gateway.rs 270-314).
ApplyFill(position, order, fill_price) ==
    IF order.direction = DIRECTION_BUY
    THEN LET new_quantity == position.quantity + order.quantity
         IN  IF position.quantity > 0
             THEN [position EXCEPT
                     !.average_price = (position.average_price * position.quantity
                                        + fill_price * order.quantity) \div new_quantity,
                     !.quantity = new_quantity]
             ELSE IF position.quantity < 0
             THEN LET cover_quantity == Min(order.quantity, 0 - position.quantity)
                      pnl == (position.average_price - fill_price) * cover_quantity
                  IN  [position EXCEPT
                         !.realized_pnl = position.realized_pnl + pnl,
                         !.average_price = IF order.quantity > 0 - position.quantity
                                           THEN fill_price ELSE position.average_price,
                         !.quantity = new_quantity]
             ELSE [position EXCEPT !.average_price = fill_price,
                                   !.quantity = new_quantity]
    ELSE LET new_quantity == position.quantity - order.quantity
         IN  IF position.quantity > 0
             THEN LET close_quantity == Min(order.quantity, position.quantity)
                      pnl == (fill_price - position.average_price) * close_quantity
                  IN  [position EXCEPT
                         !.realized_pnl = position.realized_pnl + pnl,
                         !.average_price = IF order.quantity > position.quantity
                                           THEN fill_price ELSE position.average_price,
                         !.quantity = new_quantity]
             ELSE IF position.quantity < 0
             THEN [position EXCEPT
                     !.average_price = (position.average_price * (0 - position.quantity)
                                        + fill_price * order.quantity) \div (0 - new_quantity),
                     !.quantity = new_quantity]
             ELSE [position EXCEPT !.average_price = fill_price,
                                   !.quantity = new_quantity]

GwErr_consuming_order_id(g, e) ==
    [gw |-> [g EXCEPT !.next_order_id = @ + 1], ok |-> FALSE, err |-> e, order_id |-> 0]

\* return Err(..): the gateway is as it was at the call.
GwErr(g, e) == [gw |-> g, ok |-> FALSE, err |-> e, order_id |-> 0]

lacks_funds_also_when_covering(g, order, current_position, total_cost) ==
    /\ order.direction = DIRECTION_BUY
    /\ total_cost > g.balance

\* submit_order, lines 244-256: only a buy on a flat or long position needs
\* funds.
lacks_funds(g, order, current_position, total_cost) ==
    /\ order.direction = DIRECTION_BUY
    /\ current_position >= 0
    /\ total_cost > g.balance

submit_order(g, order, current_price) ==
    IF order.quantity <= 0 THEN GwErr(g, "InvalidOrder")
    ELSE IF order.direction # DIRECTION_BUY /\ order.direction # DIRECTION_SELL
    THEN GwErr(g, "InvalidOrder")
    ELSE
    LET symbol      == order.symbol
        fill_price  == calculate_fill_price(g, current_price, order.direction)
        trade_value == order.quantity * fill_price
        commission  == calculate_commission(g, trade_value)
        current_position ==
            IF symbol \in DOMAIN g.positions THEN g.positions[symbol].quantity ELSE 0
    IN  IF lacks_funds(g, order, current_position, trade_value + commission)
        THEN GwErr(g, "InsufficientFunds")
        ELSE
        LET order_id == g.next_order_id
            position ==
                IF symbol \in DOMAIN g.positions THEN g.positions[symbol]
                ELSE [symbol |-> symbol, quantity |-> 0,
                      average_price |-> 0, realized_pnl |-> 0]
            fill == [ order_id   |-> order_id,
                      symbol     |-> order.symbol,
                      quantity   |-> order.quantity,
                      price      |-> fill_price,
                      commission |-> commission,
                      direction  |-> order.direction,
                      timestamp  |-> g.current_timestamp ]
        IN  [ gw |-> [g EXCEPT
                        !.next_order_id = order_id + 1,
                        !.positions = Put(g.positions, symbol,
                                          ApplyFill(position, order, fill_price)),
                        !.balance = IF order.direction = DIRECTION_BUY
                                    THEN g.balance - (trade_value + commission)
                                    ELSE g.balance + (trade_value - commission),
                        !.current_prices = Put(g.current_prices, symbol, current_price),
                        !.pending_fills = Append(g.pending_fills, fill)],
              ok |-> TRUE, err |-> "", order_id |-> order_id ]

query_position(g, symbol) ==
    IF symbol \in DOMAIN g.positions
    THEN LET p == g.positions[symbol]
         IN  [ some |-> TRUE, quantity |-> p.quantity,
               average_price |-> p.average_price,
               unrealized_pnl |-> calculate_unrealized_pnl(g, p),
               realized_pnl |-> p.realized_pnl ]
    ELSE [ some |-> FALSE, quantity |-> 0, average_price |-> 0,
           unrealized_pnl |-> 0, realized_pnl |-> 0 ]

query_account_realized(g) ==
    [ balance        |-> g.balance,
      equity         |-> g.balance + total_realized_pnl(g),
      available      |-> g.balance,
      position_count |-> Cardinality({s \in DOMAIN g.positions :
                                         Abs(g.positions[s].quantity) > 0}),
      total_pnl      |-> total_realized_pnl(g) + total_unrealized_pnl(g) ]

query_account(g) ==
    LET unrealized_pnl == total_unrealized_pnl(g)
        realized_pnl   == total_realized_pnl(g)
    IN  [ balance        |-> g.balance,
          equity         |-> g.balance + unrealized_pnl,
          available      |-> g.balance,
          position_count |-> Cardinality({s \in DOMAIN g.positions :
                                             Abs(g.positions[s].quantity) > 0}),
          total_pnl      |-> realized_pnl + unrealized_pnl ]

get_fills_without_draining(g) == [gw |-> g, fills |-> g.pending_fills]

get_fills(g) == [gw |-> [g EXCEPT !.pending_fills = << >>], fills |-> g.pending_fills]

update_price(g, symbol, price) ==
    [g EXCEPT !.current_prices = Put(g.current_prices, symbol, price)]


(***************************************************************************)
(* risk.rs: RiskManager                                                    *)
(***************************************************************************)
RiskConfig(rate, max_pos, max_value, max_dd) ==
    [ max_order_rate    |-> rate,
      max_position_size |-> max_pos,
      max_order_value   |-> max_value,
      max_drawdown_pct  |-> max_dd ]

AccountStatus(balance, equity, available, position_count, total_pnl) ==
    [ balance |-> balance, equity |-> equity, available |-> available,
      position_count |-> position_count, total_pnl |-> total_pnl ]

RiskManagerNew(config) ==
    [ config           |-> config,
      order_timestamps |-> << >>,
      peak_equity      |-> 0,
      initial_equity   |-> 0 ]

initialize(r, initial_equity) ==
    [r EXCEPT !.initial_equity = initial_equity, !.peak_equity = initial_equity]

update_equity(r, current_equity) ==
    IF current_equity > r.peak_equity
    THEN [r EXCEPT !.peak_equity = current_equity]
    ELSE r

check_capital(r, order, account, current_price) ==
    LET order_value == Abs(order.quantity) * current_price
    IN  IF order_value > account.available THEN "InsufficientCapital"
        ELSE IF order_value > r.config.max_order_value THEN "InsufficientCapital"
        ELSE "Ok"

EvictOld_keeping_everything(q, one_second_ago) == q

\* The while loop of check_throttle: pop the front while it is older than
\* one second.
RECURSIVE EvictOld(_, _)
EvictOld(q, one_second_ago) ==
    IF q # << >> /\ Head(q) < one_second_ago
    THEN EvictOld(Tail(q), one_second_ago)
    ELSE q

RECURSIVE EvictOldInclusive(_, _)
EvictOldInclusive(q, one_second_ago) ==
    IF q # << >> /\ Head(q) <= one_second_ago
    THEN EvictOldInclusive(Tail(q), one_second_ago)
    ELSE q

check_throttle_evicting_at_one_second(r, t) ==
    LET kept == EvictOldInclusive(r.order_timestamps, t - ClockUnitsPerSecond)
    IN  IF Len(kept) >= r.config.max_order_rate
        THEN [rm |-> [r EXCEPT !.order_timestamps = kept], result |-> "ThrottleExceeded"]
        ELSE [rm |-> [r EXCEPT !.order_timestamps = Append(kept, t)], result |-> "Ok"]

check_throttle(r, t) ==
    LET one_second_ago == t - ClockUnitsPerSecond
        kept           == EvictOld(r.order_timestamps, one_second_ago)
        current_rate   == Len(kept)
    IN  IF current_rate >= r.config.max_order_rate
        THEN [rm |-> [r EXCEPT !.order_timestamps = kept], result |-> "ThrottleExceeded"]
        ELSE [rm |-> [r EXCEPT !.order_timestamps = Append(kept, t)], result |-> "Ok"]

check_position_limit(r, order, account) ==
    LET current_position == account.position_count * 100
        order_quantity   == Abs(order.quantity)
        total_position   == current_position + order_quantity
    IN  IF total_position > r.config.max_position_size
        THEN "PositionLimitExceeded" ELSE "Ok"

\* drawdown > max_drawdown_pct, with drawdown = (peak - equity) / peak and
\* peak > 0, compared exactly as a fraction.
check_drawdown(r, account) ==
    IF r.peak_equity <= 0 THEN "Ok"
    ELSE IF (r.peak_equity - account.equity) * r.config.max_drawdown_pct.den
            > r.config.max_drawdown_pct.num * r.peak_equity
    THEN "MaxDrawdownExceeded" ELSE "Ok"

check_position_before_throttle(r, order, account, current_price, t) ==
    LET capital == check_capital(r, order, account, current_price)
    IN  IF capital # "Ok" THEN [rm |-> r, result |-> capital]
        ELSE
        LET position == check_position_limit(r, order, account)
        IN  IF position # "Ok" THEN [rm |-> r, result |-> position]
            ELSE
            LET throttle == check_throttle(r, t)
            IN  IF throttle.result # "Ok" THEN throttle
                ELSE [rm |-> throttle.rm, result |-> check_drawdown(throttle.rm, account)]

check(r, order, account, current_price, t) ==
    LET capital == check_capital(r, order, account, current_price)
    IN  IF capital # "Ok" THEN [rm |-> r, result |-> capital]
        ELSE
        LET throttle == check_throttle(r, t)
        IN  IF throttle.result # "Ok" THEN throttle
            ELSE
            LET position == check_position_limit(throttle.rm, order, account)
            IN  IF position # "Ok" THEN [rm |-> throttle.rm, result |-> position]
                ELSE [rm |-> throttle.rm, result |-> check_drawdown(throttle.rm, account)]

clear_throttle_history(r) == [r EXCEPT !.order_timestamps = << >>]

(***************************************************************************)
(* Risk manager under arbitrary calls and an advancing wall clock          *)
(***************************************************************************)
RmRates == {0, 1, 2}

RmOrders == { OrderRequest("BTCUSDT", q, DIRECTION_BUY) : q \in {1, 150} }

RmAccounts == { AccountStatus(100, 100, 100, 0, 0),
                AccountStatus(100, 40, 100, 1, 0),
                AccountStatus(1000, 40, 1000, 1, 0),
                AccountStatus(5, 100, 5, 0, 0) }

NoGates == [capital |-> "Ok", throttle |-> "Ok", position |-> "Ok", drawdown |-> "Ok"]

\* gates: what each gate answers on its own in the state before the call;
\* oldest: the oldest recorded order before the call (-1: none);
\* afterRejection: an earlier call was rejected with ThrottleExceeded;
\* at: the instant of the call; before: the throttle window before the call.
RmCallNone ==
    [ op |-> "none", result |-> "Ok", recentOk |-> 0, gates |-> NoGates,
      oldest |-> 0 - 1, afterRejection |-> FALSE, at |-> 0, before |-> << >> ]

Oldest(r) == IF r.order_timestamps = << >> THEN 0 - 1 ELSE Head(r.order_timestamps)

AfterRejection == rmLast.afterRejection \/ rmLast.result = "ThrottleExceeded"

\* The number of successful check_throttle calls made no more than one second
\* before instant t.
RecentOk(times, t) ==
    Cardinality({i \in 1..Len(times) : t - times[i] <= ClockUnitsPerSecond})

RmInit ==
    /\ \E rate \in RmRates :
          rm = initialize(RiskManagerNew(RiskConfig(rate, 200, 1000, Frac(1, 2))), 100)
    /\ now = 0
    /\ okTimes = << >>
    /\ rmLast = RmCallNone
    /\ rmCalls = 0

RmClockAdvance ==
    /\ now < MaxNow
    /\ now' = now + 1
    /\ UNCHANGED <<rm, okTimes, rmLast, rmCalls>>
    /\ UNCHANGED notRm

RmCheckThrottle ==
    /\ rmCalls < MaxRmCalls
    /\ LET r == check_throttle(rm, now)
       IN  /\ rm' = r.rm
           /\ okTimes' = IF r.result = "Ok" THEN Append(okTimes, now) ELSE okTimes
           /\ rmLast' = [op |-> "check_throttle", result |-> r.result,
                         recentOk |-> RecentOk(okTimes, now), gates |-> NoGates,
                         oldest |-> Oldest(rm), afterRejection |-> AfterRejection,
                            at |-> now, before |-> rm.order_timestamps]
    /\ rmCalls' = rmCalls + 1
    /\ UNCHANGED now
    /\ UNCHANGED notRm

RmCheck ==
    /\ rmCalls < MaxRmCalls
    /\ \E order \in RmOrders, account \in RmAccounts, price \in {1, 10} :
          LET r == check(rm, order, account, price, now)
          IN  /\ rm' = r.rm
              /\ okTimes' = IF r.result \notin {"InsufficientCapital", "ThrottleExceeded"}
                            THEN Append(okTimes, now) ELSE okTimes
              /\ rmLast' = [op |-> "check", result |-> r.result,
                            recentOk |-> RecentOk(okTimes, now),
                            gates |-> [ capital  |-> check_capital(rm, order, account, price),
                                        throttle |-> check_throttle(rm, now).result,
                                        position |-> check_position_limit(rm, order, account),
                                        drawdown |-> check_drawdown(rm, account) ],
                            oldest |-> Oldest(rm), afterRejection |-> AfterRejection,
                            at |-> now, before |-> rm.order_timestamps]
    /\ rmCalls' = rmCalls + 1
    /\ UNCHANGED now
    /\ UNCHANGED notRm

RmUpdateEquity ==
    /\ rmCalls < MaxRmCalls
    /\ \E e \in {40, 120} :
          /\ e # rm.peak_equity
          /\ rm' = update_equity(rm, e)
    /\ rmLast' = [RmCallNone EXCEPT !.op = "update_equity",
                                     !.afterRejection = AfterRejection]
    /\ rmCalls' = rmCalls + 1
    /\ UNCHANGED <<now, okTimes>>
    /\ UNCHANGED notRm

RmNext == RmClockAdvance \/ RmCheckThrottle \/ RmCheck \/ RmUpdateEquity

(***************************************************************************)
(* event_bus.rs: events, filters, channels, EventBus                       *)
(***************************************************************************)
EventKinds == {"Tick", "Timer", "OrderUpdate", "AccountUpdate", "Signal", "Custom"}

\* An event: its variant and its payload (one number standing for the fields).
Event(kind, payload) == [kind |-> kind, payload |-> payload]

EventFilter(tick, timer, order_update, account_update, signal, custom) ==
    [ tick |-> tick, timer |-> timer, order_update |-> order_update,
      account_update |-> account_update, signal |-> signal, custom |-> custom ]

FilterDefault == EventFilter(FALSE, FALSE, FALSE, FALSE, FALSE, FALSE)

FilterAll == EventFilter(TRUE, TRUE, TRUE, TRUE, TRUE, TRUE)

FilterTickOnly == [FilterDefault EXCEPT !.tick = TRUE]

FilterOrdersOnly == [FilterDefault EXCEPT !.order_update = TRUE]

FilterTimerOnly == [FilterDefault EXCEPT !.timer = TRUE]

matches_timer_as_tick(filter, event) ==
    CASE event.kind = "Tick"          -> filter.tick
      [] event.kind = "Timer"         -> filter.tick
      [] event.kind = "OrderUpdate"   -> filter.order_update
      [] event.kind = "AccountUpdate" -> filter.account_update
      [] event.kind = "Signal"        -> filter.signal
      [] event.kind = "Custom"        -> filter.custom

matches(filter, event) ==
    CASE event.kind = "Tick"          -> filter.tick
      [] event.kind = "Timer"         -> filter.timer
      [] event.kind = "OrderUpdate"   -> filter.order_update
      [] event.kind = "AccountUpdate" -> filter.account_update
      [] event.kind = "Signal"        -> filter.signal
      [] event.kind = "Custom"        -> filter.custom

\* The channel behind a subscription: bounded(capacity) with capacity >= 1, or
\* unbounded (capacity 0 - 1).  The sender lives in the bus's SubscriberEntry,
\* the receiver in the Subscription handed to the caller.
Unbounded == 0 - 1

ChannelNew(capacity) ==
    [ queue |-> << >>, capacity |-> capacity,
      receiver_alive |-> TRUE, sender_alive |-> TRUE ]

is_full(ch) == ch.capacity # Unbounded /\ Len(ch.queue) >= ch.capacity

try_send_pushing_front(ch, event) ==
    IF ~ch.receiver_alive THEN [ch |-> ch, result |-> "Disconnected"]
    ELSE IF is_full(ch) THEN [ch |-> ch, result |-> "Full"]
    ELSE [ch |-> [ch EXCEPT !.queue = <<event>> \o ch.queue], result |-> "Ok"]

try_send(ch, event) ==
    IF ~ch.receiver_alive THEN [ch |-> ch, result |-> "Disconnected"]
    ELSE IF is_full(ch) THEN [ch |-> ch, result |-> "Full"]
    ELSE [ch |-> [ch EXCEPT !.queue = Append(ch.queue, event)], result |-> "Ok"]

EventBusNew(default_capacity) ==
    [ subscribers      |-> << >>,
      default_capacity |-> default_capacity,
      events_published |-> 0,
      events_delivered |-> 0,
      events_dropped   |-> 0 ]

subscribe_with_capacity(b, id, filter, capacity) ==
    [ bus  |-> [b EXCEPT !.subscribers = Append(b.subscribers, [id |-> id, filter |-> filter])],
      chan |-> ChannelNew(capacity) ]

subscribe(b, id, filter) == subscribe_with_capacity(b, id, filter, b.default_capacity)

subscribe_unbounded(b, id, filter) == subscribe_with_capacity(b, id, filter, Unbounded)

RECURSIVE Retain(_, _)
Retain(subs, id) ==
    IF subs = << >> THEN << >>
    ELSE IF Head(subs).id # id THEN <<Head(subs)>> \o Retain(Tail(subs), id)
    ELSE Retain(Tail(subs), id)

unsubscribe_reporting_only(b, subscription_id) ==
    [ bus |-> b,
      removed |-> \E i \in 1..Len(b.subscribers) : b.subscribers[i].id = subscription_id ]

unsubscribe(b, subscription_id) ==
    LET kept == Retain(b.subscribers, subscription_id)
    IN  [ bus |-> [b EXCEPT !.subscribers = kept],
          removed |-> Len(kept) < Len(b.subscribers) ]

RECURSIVE PublishLoop_stopping_at_full(_, _, _, _)
PublishLoop_stopping_at_full(subs, i, event, st) ==
    IF i > Len(subs) THEN st
    ELSE
    LET subscriber == subs[i]
    IN  IF matches(subscriber.filter, event)
        THEN LET sent == try_send(st.chans[subscriber.id], event)
             IN  CASE sent.result = "Ok" ->
                        PublishLoop_stopping_at_full(subs, i + 1, event,
                            [st EXCEPT !.chans[subscriber.id] = sent.ch,
                                       !.delivered = st.delivered + 1,
                                       !.events_delivered = st.events_delivered + 1])
                   [] sent.result = "Full" ->
                        [st EXCEPT !.events_dropped = st.events_dropped + 1]
                   [] sent.result = "Disconnected" ->
                        PublishLoop_stopping_at_full(subs, i + 1, event, st)
        ELSE PublishLoop_stopping_at_full(subs, i + 1, event, st)

\* The loop of publish over the subscribers from index i on; st carries the
\* channels, the call's delivered count and the two statistics.
RECURSIVE PublishLoop(_, _, _, _)
PublishLoop(subs, i, event, st) ==
    IF i > Len(subs) THEN st
    ELSE
    LET subscriber == subs[i]
    IN  IF matches(subscriber.filter, event)
        THEN LET sent == try_send(st.chans[subscriber.id], event)
             IN  CASE sent.result = "Ok" ->
                        PublishLoop(subs, i + 1, event,
                            [st EXCEPT !.chans[subscriber.id] = sent.ch,
                                       !.delivered = st.delivered + 1,
                                       !.events_delivered = st.events_delivered + 1])
                   [] sent.result = "Full" ->
                        PublishLoop(subs, i + 1, event,
                            [st EXCEPT !.events_dropped = st.events_dropped + 1])
                   [] sent.result = "Disconnected" ->
                        PublishLoop(subs, i + 1, event, st)
        ELSE PublishLoop(subs, i + 1, event, st)

PublishResult_forgetting_dropped(b, st) ==
    [ bus |-> [b EXCEPT !.events_published = b.events_published + 1,
                        !.events_delivered = st.events_delivered],
      chans |-> st.chans,
      delivered |-> st.delivered ]

\* publish, after the loop: the counters as the loop left them.
PublishResult(b, st) ==
    [ bus |-> [b EXCEPT !.events_published = b.events_published + 1,
                        !.events_delivered = st.events_delivered,
                        !.events_dropped = st.events_dropped],
      chans |-> st.chans,
      delivered |-> st.delivered ]

publish_counting_once(b, cs, event) ==
    LET st == PublishLoop(b.subscribers, 1, event,
                  [chans |-> cs, delivered |-> 0,
                   events_delivered |-> b.events_delivered,
                   events_dropped |-> b.events_dropped])
    IN  PublishResult(b, [st EXCEPT !.events_delivered =
                             b.events_delivered + (IF st.delivered > 0 THEN 1 ELSE 0)])

publish(b, cs, event) ==
    PublishResult(b, PublishLoop(b.subscribers, 1, event,
                      [chans |-> cs, delivered |-> 0,
                       events_delivered |-> b.events_delivered,
                       events_dropped |-> b.events_dropped]))

subscriber_count(b) == Len(b.subscribers)

stats(b) ==
    [ subscriber_count |-> Len(b.subscribers),
      events_published |-> b.events_published,
      events_delivered |-> b.events_delivered,
      events_dropped   |-> b.events_dropped ]

(***************************************************************************)
(* Event bus under arbitrary calls by its single owner                     *)
(***************************************************************************)
BusFilters == {FilterAll, FilterTickOnly, FilterOrdersOnly}

BusKinds == {"Tick", "OrderUpdate"}

SubIds(b) == {b.subscribers[i].id : i \in 1..Len(b.subscribers)}

\* (subscriber, event) pairs of one publish: registered subscribers whose
\* filter selects the event's variant.
Selects(filter, kind) ==
    \/ kind = "Tick" /\ filter.tick
    \/ kind = "Timer" /\ filter.timer
    \/ kind = "OrderUpdate" /\ filter.order_update
    \/ kind = "AccountUpdate" /\ filter.account_update
    \/ kind = "Signal" /\ filter.signal
    \/ kind = "Custom" /\ filter.custom

MatchingSubs(b, kind) ==
    {i \in 1..Len(b.subscribers) : Selects(b.subscribers[i].filter, kind)}

\* The filter a registered subscriber was subscribed with.
FilterOf(b, id) ==
    b.subscribers[CHOOSE i \in 1..Len(b.subscribers) : b.subscribers[i].id = id].filter

\* lastFull, lastOpen: the matching subscribers of the last publish whose
\* channel was full, respectively alive and not full, before it;
\* lastDropped: what it added to events_dropped; lastFullUntouched: the full
\* channels were left as they were; lastOpenGot: each open channel got the
\* event at its tail.
\* unsubscribed: the ids for which unsubscribe returned true, with their
\* filters; unsubscribedTwice: unsubscribe returned true for such an id again;
\* countDropsByOne: each successful unsubscribe lowered subscriber_count by
\* one; lateDelivery: a publish changed the channel of such an id;
\* publishedAfterUnsub: a publish carried an event that the filter of such an
\* id selects while its receiver was alive and its channel had room.
BusObsNone ==
    [ matched |-> 0, matchedLive |-> 0, becameFull |-> FALSE, lastDelivered |-> 0,
      lastFull |-> 0, lastOpen |-> 0, lastDropped |-> 0,
      lastFullUntouched |-> TRUE, lastOpenGot |-> TRUE,
      unsubscribed |-> EmptyMap, unsubscribedTwice |-> FALSE, countDropsByOne |-> TRUE,
      lateDelivery |-> FALSE, publishedAfterUnsub |-> FALSE ]

BusIdle ==
    /\ bus = EventBusNew(MaxCapacity)
    /\ chans = EmptyMap
    /\ nextSubId = 1
    /\ received = EmptyMap
    /\ busObs = BusObsNone
    /\ busCalls = 0
    /\ busLock = 0
    /\ pubPc = EmptyMap
    /\ pubSent = EmptyMap

BusSubscribe ==
    /\ busCalls < MaxBusCalls
    /\ busCalls' = busCalls + 1
    /\ nextSubId <= MaxSubs
    /\ \E filter \in BusFilters, capacity \in {1, MaxCapacity} :
          LET r == subscribe_with_capacity(bus, nextSubId, filter, capacity)
          IN  /\ bus' = r.bus
              /\ chans' = Put(chans, nextSubId, r.chan)
    /\ received' = Put(received, nextSubId, << >>)
    /\ nextSubId' = nextSubId + 1
    /\ UNCHANGED <<busObs, busLock, pubPc, pubSent>>
    /\ UNCHANGED notBus

BusUnsubscribe ==
    /\ busCalls < MaxBusCalls
    /\ busCalls' = busCalls + 1
    /\ \E id \in 1..MaxSubs :
          LET r == unsubscribe(bus, id)
          IN  /\ bus' = r.bus
              /\ chans' = IF id \in SubIds(r.bus) \/ id \notin DOMAIN chans
                           THEN chans
                           ELSE [chans EXCEPT ![id].sender_alive = FALSE]
              /\ busObs' =
                    IF r.removed
                    THEN [busObs EXCEPT
                            !.unsubscribed = Put(@, id, FilterOf(bus, id)),
                            !.unsubscribedTwice = @ \/ id \in DOMAIN busObs.unsubscribed,
                            !.countDropsByOne =
                                @ /\ subscriber_count(r.bus) = subscriber_count(bus) - 1]
                    ELSE busObs
    /\ UNCHANGED <<nextSubId, received, busLock, pubPc, pubSent>>
    /\ UNCHANGED notBus

\* The caller drops its Subscription: the receiving end goes away while the
\* bus keeps the SubscriberEntry.
BusDropSubscription ==
    /\ busCalls < MaxBusCalls
    /\ busCalls' = busCalls + 1
    /\ \E id \in DOMAIN chans :
          /\ chans[id].receiver_alive
          /\ chans' = [chans EXCEPT ![id].receiver_alive = FALSE, ![id].queue = << >>]
    /\ UNCHANGED <<busObs, bus, nextSubId, received, busLock, pubPc, pubSent>>
    /\ UNCHANGED notBus

BusPublish ==
    /\ busCalls < MaxBusCalls
    /\ busCalls' = busCalls + 1
    /\ bus.events_published < MaxPublish
    /\ \E kind \in BusKinds :
          LET event == Event(kind, bus.events_published + 1)
              r     == publish(bus, chans, event)
              match == MatchingSubs(bus, kind)
              chanOf(i) == chans[bus.subscribers[i].id]
              full  == {i \in match : chanOf(i).receiver_alive /\ is_full(chanOf(i))}
              open  == {i \in match : chanOf(i).receiver_alive /\ ~is_full(chanOf(i))}
          IN  /\ bus' = r.bus
              /\ chans' = r.chans
              /\ busObs' =
                    [ matched     |-> busObs.matched + Cardinality(match),
                      matchedLive |-> busObs.matchedLive
                            + Cardinality({i \in match :
                                  chans[bus.subscribers[i].id].receiver_alive}),
                      becameFull  |-> \/ busObs.becameFull
                                      \/ \E i \in 1..Len(bus.subscribers) :
                                            is_full(r.chans[bus.subscribers[i].id]),
                      lastDelivered |-> r.delivered,
                      lastFull    |-> Cardinality(full),
                      lastOpen    |-> Cardinality(open),
                      lastDropped |-> r.bus.events_dropped - bus.events_dropped,
                      lastFullUntouched |->
                          \A i \in full : r.chans[bus.subscribers[i].id] = chanOf(i),
                      lastOpenGot |->
                          \A i \in open : r.chans[bus.subscribers[i].id].queue
                                             = Append(chanOf(i).queue, event),
                      unsubscribed |-> busObs.unsubscribed,
                      unsubscribedTwice |-> busObs.unsubscribedTwice,
                      countDropsByOne |-> busObs.countDropsByOne,
                      lateDelivery |->
                          \/ busObs.lateDelivery
                          \/ \E id \in DOMAIN busObs.unsubscribed :
                                r.chans[id] # chans[id],
                      publishedAfterUnsub |->
                          \/ busObs.publishedAfterUnsub
                          \/ \E id \in DOMAIN busObs.unsubscribed :
                                /\ matches(busObs.unsubscribed[id], event)
                                /\ chans[id].receiver_alive
                                /\ ~is_full(chans[id]) ]
    /\ UNCHANGED <<nextSubId, received, busLock, pubPc, pubSent>>
    /\ UNCHANGED notBus

BusTryRecv ==
    /\ busCalls < MaxBusCalls
    /\ busCalls' = busCalls + 1
    /\ \E id \in DOMAIN chans :
          /\ chans[id].receiver_alive
          /\ chans[id].queue # << >>
          /\ received' = [received EXCEPT ![id] = Append(@, Head(chans[id].queue))]
          /\ chans' = [chans EXCEPT ![id].queue = Tail(@)]
    /\ UNCHANGED <<busObs, bus, nextSubId, busLock, pubPc, pubSent>>
    /\ UNCHANGED notBus

BusNext ==
    \/ BusSubscribe
    \/ BusUnsubscribe
    \/ BusDropSubscription
    \/ BusPublish
    \/ BusTryRecv

(***************************************************************************)
(* A shared bus, Arc<Mutex<EventBus>>: publisher threads each lock the     *)
(* bus, publish one Timer event and release the lock, EventsPerThread      *)
(* times; the subscriber's owner takes events out of the channel.          *)
(***************************************************************************)
Threads == 1..NumThreads

TotalEvents == NumThreads * EventsPerThread

ThreadEvent(thread_id, i) == Event("Timer", thread_id * 1000 + i)

SharedInit ==
    /\ \E filter \in {FilterAll, FilterTimerOnly}, capacity \in {TotalEvents - 1, TotalEvents} :
          LET r == subscribe_with_capacity(EventBusNew(TotalEvents), 1, filter, capacity)
          IN  /\ bus = r.bus
              /\ chans = Put(EmptyMap, 1, r.chan)
    /\ nextSubId = 2
    /\ received = Put(EmptyMap, 1, << >>)
    /\ busObs = BusObsNone
    /\ busCalls = 0
    /\ busLock = 0
    /\ pubPc = [t \in Threads |-> "idle"]
    /\ pubSent = [t \in Threads |-> 0]

SharedLock(t) ==
    /\ pubPc[t] = "idle"
    /\ pubSent[t] < EventsPerThread
    /\ busLock = 0
    /\ busLock' = t
    /\ pubPc' = [pubPc EXCEPT ![t] = "locked"]
    /\ UNCHANGED <<bus, chans, nextSubId, received, busObs, busCalls, pubSent>>
    /\ UNCHANGED notBus

SharedPublish(t) ==
    /\ pubPc[t] = "locked"
    /\ busLock = t
    /\ LET r == publish(bus, chans, ThreadEvent(t, pubSent[t]))
       IN  /\ bus' = r.bus
           /\ chans' = r.chans
    /\ pubSent' = [pubSent EXCEPT ![t] = @ + 1]
    /\ pubPc' = [pubPc EXCEPT ![t] = "published"]
    /\ UNCHANGED <<nextSubId, received, busObs, busCalls, busLock>>
    /\ UNCHANGED notBus

SharedUnlock(t) ==
    /\ pubPc[t] = "published"
    /\ busLock = t
    /\ busLock' = 0
    /\ pubPc' = [pubPc EXCEPT ![t] = IF pubSent[t] < EventsPerThread THEN "idle" ELSE "done"]
    /\ UNCHANGED <<bus, chans, nextSubId, received, busObs, busCalls, pubSent>>
    /\ UNCHANGED notBus

SharedTryRecv ==
    /\ chans[1].queue # << >>
    /\ received' = [received EXCEPT ![1] = Append(@, Head(chans[1].queue))]
    /\ chans' = [chans EXCEPT ![1].queue = Tail(@)]
    /\ UNCHANGED <<bus, nextSubId, busObs, busCalls, busLock, pubPc, pubSent>>
    /\ UNCHANGED notBus

SharedNext ==
    \/ \E t \in Threads : SharedLock(t)
    \/ \E t \in Threads : SharedPublish(t)
    \/ \E t \in Threads : SharedUnlock(t)
    \/ SharedTryRecv

(***************************************************************************)
(* event_bus.rs: TimerEntry, TimerManager                                  *)
(***************************************************************************)
TimerEntry_one_shot(id, trigger_at_ms) ==
    [ id |-> id, interval_ms |-> 0, next_trigger_ms |-> trigger_at_ms,
      active |-> TRUE, repeating |-> FALSE ]

TimerEntry_repeating(id, interval_ms, start_at_ms) ==
    [ id |-> id, interval_ms |-> interval_ms,
      next_trigger_ms |-> start_at_ms + interval_ms,
      active |-> TRUE, repeating |-> TRUE ]

should_fire_strictly_after(timer, current_ms) ==
    timer.active /\ current_ms > timer.next_trigger_ms

should_fire(timer, current_ms) ==
    timer.active /\ current_ms >= timer.next_trigger_ms

advance_keeping_trigger(timer) ==
    IF timer.repeating /\ timer.interval_ms > 0
    THEN timer
    ELSE [timer EXCEPT !.active = FALSE]

advance(timer) ==
    IF timer.repeating /\ timer.interval_ms > 0
    THEN [timer EXCEPT !.next_trigger_ms = timer.next_trigger_ms + timer.interval_ms]
    ELSE [timer EXCEPT !.active = FALSE]

TimerManagerNew == [timers |-> << >>, current_time_ms |-> 0]

set_time(m, time_ms) == [m EXCEPT !.current_time_ms = time_ms]

schedule_once_from_zero(m, id, delay_ms) ==
    [m EXCEPT !.timers = Append(m.timers, TimerEntry_one_shot(id, delay_ms))]

schedule_once(m, id, delay_ms) ==
    [m EXCEPT !.timers = Append(m.timers, TimerEntry_one_shot(id, m.current_time_ms + delay_ms))]

schedule_repeating(m, id, interval_ms) ==
    [m EXCEPT !.timers = Append(m.timers,
                            TimerEntry_repeating(id, interval_ms, m.current_time_ms))]

\* iter_mut().find(id): the index of the first entry with that id, 0 if none.
FindTimer(timers, timer_id) ==
    IF \E i \in 1..Len(timers) : timers[i].id = timer_id
    THEN CHOOSE i \in 1..Len(timers) :
            /\ timers[i].id = timer_id
            /\ \A j \in 1..(i - 1) : timers[j].id # timer_id
    ELSE 0

cancel_reporting_only(m, timer_id) ==
    [tm |-> m, found |-> FindTimer(m.timers, timer_id) > 0]

cancel(m, timer_id) ==
    LET i == FindTimer(m.timers, timer_id)
    IN  IF i > 0
        THEN [tm |-> [m EXCEPT !.timers[i].active = FALSE], found |-> TRUE]
        ELSE [tm |-> m, found |-> FALSE]

\* The loop of process over the entries from index i on: the entries after
\* should_fire/advance, and the events pushed.
RECURSIVE ProcessLoop(_, _, _, _)
ProcessLoop(timers, i, current_time_ms, events) ==
    IF i > Len(timers) THEN [timers |-> timers, events |-> events]
    ELSE IF should_fire(timers[i], current_time_ms)
    THEN ProcessLoop([timers EXCEPT ![i] = advance(timers[i])], i + 1, current_time_ms,
                     Append(events, [kind |-> "Timer", id |-> timers[i].id,
                                     timestamp |-> current_time_ms]))
    ELSE ProcessLoop(timers, i + 1, current_time_ms, events)

RECURSIVE RetainActive(_)
RetainActive(timers) ==
    IF timers = << >> THEN << >>
    ELSE IF Head(timers).active THEN <<Head(timers)>> \o RetainActive(Tail(timers))
    ELSE RetainActive(Tail(timers))

process(m, current_time_ms) ==
    LET r == ProcessLoop(m.timers, 1, current_time_ms, << >>)
    IN  [ tm |-> [timers |-> RetainActive(r.timers), current_time_ms |-> current_time_ms],
          events |-> r.events ]

active_count(m) == Cardinality({i \in 1..Len(m.timers) : m.timers[i].active})

clear(m) == [m EXCEPT !.timers = << >>]

(***************************************************************************)
(* Timer manager under arbitrary calls                                     *)
(***************************************************************************)
Times == 0..MaxTime

TmDelays == {0, 2}

TmIntervals == {0, 1, 2}

TmSetTimes == {1, 3}

\* Observer entry of a timer: the manager time and interval it was scheduled
\* with, the number of Timer events emitted for it, the largest time handed
\* to process since, whether a process call came a whole interval or more
\* after its pending trigger, whether it was cancelled or cleared, and
\* whether an event was emitted for it by a process call whose time was
\* before the timer's pending trigger; whether a cancel call for it returned
\* true, the largest time handed to process after that, and whether a
\* process call after that emitted an event for it.
TmObsNew(t0, interval, repeating) ==
    [ t0 |-> t0, interval |-> interval, repeating |-> repeating, emitted |-> 0,
      processedTo |-> 0 - 1, overran |-> FALSE, cancelled |-> FALSE, early |-> FALSE,
      cancelOk |-> FALSE, processedAfterCancel |-> 0 - 1, lateEmit |-> FALSE ]

EventsFor(events, id) == Cardinality({k \in 1..Len(events) : events[k].id = id})

TmIdle ==
    /\ tm = TimerManagerNew
    /\ nextTimerId = 1
    /\ tmObs = EmptyMap
    /\ tmCalls = 0

TmSetTime ==
    /\ tmCalls < MaxTmCalls
    /\ \E t \in TmSetTimes : tm' = set_time(tm, t)
    /\ tmCalls' = tmCalls + 1
    /\ UNCHANGED <<nextTimerId, tmObs>>
    /\ UNCHANGED notTm

TmScheduleOnce ==
    /\ tmCalls < MaxTmCalls
    /\ nextTimerId <= MaxTimers
    /\ \E delay \in TmDelays :
          /\ tm' = schedule_once(tm, nextTimerId, delay)
          /\ tmObs' = Put(tmObs, nextTimerId, TmObsNew(tm.current_time_ms, delay, FALSE))
    /\ nextTimerId' = nextTimerId + 1
    /\ tmCalls' = tmCalls + 1
    /\ UNCHANGED notTm

TmScheduleRepeating ==
    /\ tmCalls < MaxTmCalls
    /\ nextTimerId <= MaxTimers
    /\ \E interval \in TmIntervals :
          /\ tm' = schedule_repeating(tm, nextTimerId, interval)
          /\ tmObs' = Put(tmObs, nextTimerId, TmObsNew(tm.current_time_ms, interval, TRUE))
    /\ nextTimerId' = nextTimerId + 1
    /\ tmCalls' = tmCalls + 1
    /\ UNCHANGED notTm

TmCancel ==
    /\ tmCalls < MaxTmCalls
    /\ \E id \in 1..MaxTimers :
          LET r == cancel(tm, id)
          IN  /\ tm' = r.tm
              /\ tmObs' = IF r.found
                           THEN [tmObs EXCEPT ![id].cancelled = TRUE, ![id].cancelOk = TRUE]
                           ELSE tmObs
    /\ tmCalls' = tmCalls + 1
    /\ UNCHANGED nextTimerId
    /\ UNCHANGED notTm

TmProcess ==
    /\ tmCalls < MaxTmCalls
    /\ \E t \in Times :
          LET r == process(tm, t)
          IN  /\ tm' = r.tm
              /\ tmObs' =
                    [ id \in DOMAIN tmObs |->
                        LET i == FindTimer(tm.timers, id)
                        IN  [tmObs[id] EXCEPT
                               !.emitted = @ + EventsFor(r.events, id),
                               !.processedTo = IF t > @ THEN t ELSE @,
                               !.processedAfterCancel =
                                    IF tmObs[id].cancelOk /\ t > @ THEN t ELSE @,
                               !.lateEmit = \/ @
                                            \/ /\ tmObs[id].cancelOk
                                               /\ EventsFor(r.events, id) > 0,
                               !.early = \/ @
                                         \/ /\ EventsFor(r.events, id) > 0
                                            /\ \/ i = 0
                                               \/ tm.timers[i].next_trigger_ms > t,
                               !.overran = \/ @
                                           \/ /\ i > 0
                                              /\ tm.timers[i].active
                                              /\ t >= tm.timers[i].next_trigger_ms
                                                      + tmObs[id].interval] ]
    /\ tmCalls' = tmCalls + 1
    /\ UNCHANGED nextTimerId
    /\ UNCHANGED notTm

TmClear ==
    /\ tmCalls < MaxTmCalls
    /\ tm.timers # << >>
    /\ tm' = clear(tm)
    /\ tmObs' = [id \in DOMAIN tmObs |-> [tmObs[id] EXCEPT !.cancelled = TRUE]]
    /\ tmCalls' = tmCalls + 1
    /\ UNCHANGED nextTimerId
    /\ UNCHANGED notTm

TmNext ==
    \/ TmSetTime
    \/ TmScheduleOnce
    \/ TmScheduleRepeating
    \/ TmCancel
    \/ TmProcess
    \/ TmClear

(***************************************************************************)
(* warmup.rs: WarmupManager                                                *)
(***************************************************************************)
WarmupManagerNew(warmup_bars) ==
    LET bars == IF warmup_bars > 0 THEN warmup_bars ELSE 0
    IN  [ warmup_bars |-> bars, current_bar |-> 0, is_warmed_up |-> bars = 0,
          warmup_complete_timestamp |-> IF bars = 0 THEN 0 ELSE 0 - 1 ]   \* -1: None

warmup_tick_completing_one_bar_late(w, timestamp) ==
    IF w.is_warmed_up THEN w
    ELSE LET bar == w.current_bar + 1
         IN  IF bar > w.warmup_bars
             THEN [w EXCEPT !.current_bar = bar, !.is_warmed_up = TRUE,
                            !.warmup_complete_timestamp = timestamp]
             ELSE [w EXCEPT !.current_bar = bar]

warmup_tick(w, timestamp) ==
    IF w.is_warmed_up THEN w
    ELSE LET bar == w.current_bar + 1
         IN  IF bar >= w.warmup_bars
             THEN [w EXCEPT !.current_bar = bar, !.is_warmed_up = TRUE,
                            !.warmup_complete_timestamp = timestamp]
             ELSE [w EXCEPT !.current_bar = bar]

is_warmed_up(w) == w.is_warmed_up

warmup_reset(w) ==
    [w EXCEPT !.current_bar = 0, !.is_warmed_up = (w.warmup_bars = 0),
              !.warmup_complete_timestamp = IF w.warmup_bars = 0 THEN 0 ELSE 0 - 1]

actual_start_bar(w) == w.warmup_bars

\* The manager after the first n ticks of a stream.
RECURSIVE WarmupAfter(_, _, _)
WarmupAfter(w, ticks, n) ==
    IF n = 0 THEN w
    ELSE warmup_tick(WarmupAfter(w, ticks, n - 1), ticks[n].timestamp)

(***************************************************************************)
(* strategy.rs (DualMAStrategy), as section 4.4 of the specification       *)
(* describes it: a rolling window of prices and the previous pair of       *)
(* moving averages.  The averages are kept as window sums and compared     *)
(* cross-multiplied, which is exact.                                       *)
(***************************************************************************)
StrategyParams(short, long, size, warmup) ==
    [ short_ma_period |-> short, long_ma_period |-> long,
      position_size |-> size, warmup_bars |-> warmup ]

Tick(timestamp, price, volume) == [timestamp |-> timestamp, price |-> price, volume |-> volume]

DualMAStrategyNew(params) ==
    [ params |-> params, prices |-> << >>,
      prev |-> [some |-> FALSE, short |-> 0, long |-> 0] ]

strategy_reset(st) == DualMAStrategyNew(st.params)

RECURSIVE SumLast(_, _)
SumLast(prices, k) ==
    IF k = 0 THEN 0
    ELSE prices[Len(prices)] + SumLast(SubSeq(prices, 1, Len(prices) - 1), k - 1)

\* short average above (> 0), equal to (= 0) or below (< 0) the long average
MaOrder(st, short_sum, long_sum) ==
    short_sum * st.params.long_ma_period - long_sum * st.params.short_ma_period

on_tick(st, tick) ==
    LET window == IF Len(st.prices) >= st.params.long_ma_period
                  THEN Append(Tail(st.prices), tick.price)
                  ELSE Append(st.prices, tick.price)
    IN  IF Len(window) < st.params.long_ma_period
        THEN [st |-> [st EXCEPT !.prices = window], signal |-> "None"]
        ELSE
        LET cS == SumLast(window, st.params.short_ma_period)
            cL == SumLast(window, st.params.long_ma_period)
            signal ==
                IF ~st.prev.some THEN "None"
                ELSE IF MaOrder(st, st.prev.short, st.prev.long) <= 0 /\ MaOrder(st, cS, cL) > 0
                THEN "Buy"
                ELSE IF MaOrder(st, st.prev.short, st.prev.long) >= 0 /\ MaOrder(st, cS, cL) < 0
                THEN "Sell"
                ELSE "None"
        IN  [ st |-> [st EXCEPT !.prices = window,
                                !.prev = [some |-> TRUE, short |-> cS, long |-> cL]],
              signal |-> signal ]

generate_order(st, signal, symbol, price) ==
    OrderRequest(symbol, st.params.position_size,
                 IF signal = "Buy" THEN DIRECTION_BUY ELSE DIRECTION_SELL)

(***************************************************************************)
(* engine.rs: BacktestEngine                                               *)
(***************************************************************************)
EngineSlippage == Frac(1, 1000)

EngineCommissionRate == Frac(1, 10000)

DefaultBalance == 100000

BacktestEngineNew(params, risk_config) ==
    [ params          |-> params,
      risk_config     |-> risk_config,
      balance         |-> DefaultBalance,
      initial_balance |-> DefaultBalance,
      strategy        |-> DualMAStrategyNew(params),
      risk_manager    |-> RiskManagerNew(risk_config),
      gateway         |-> GatewayNew(DefaultBalance, EngineSlippage, EngineCommissionRate),
      ticks           |-> << >>,
      current_index   |-> 0,
      equity_curve    |-> << >>,
      peak_equity     |-> DefaultBalance,
      symbol          |-> "BTCUSDT",
      initialized     |-> TRUE,
      total_trades    |-> 0,
      winning_trades  |-> 0,
      losing_trades   |-> 0 ]

with_initial_balance(e, balance) ==
    [e EXCEPT !.balance = balance,
              !.initial_balance = balance,
              !.gateway = GatewayNew(balance, EngineSlippage, EngineCommissionRate)]

\* The ticks handed over are valid (positive prices, non-negative volumes,
\* strictly increasing timestamps), so the loader's cleansing keeps them all.
load_data_from_vectors(e, ticks) ==
    [e EXCEPT !.ticks = ticks,
              !.current_index = 0,
              !.risk_manager = initialize(e.risk_manager, e.balance)]

get_account_status(e) == query_account(e.gateway)

\* process_tick, lines 148-153: price and timestamp to the gateway, the tick
\* to the strategy.
TickBegin(e, tick) ==
    LET s == on_tick(e.strategy, tick)
    IN  [ eng |-> [e EXCEPT
                     !.gateway = set_timestamp(update_price(e.gateway, e.symbol, tick.price),
                                               tick.timestamp),
                     !.strategy = s.st],
          signal |-> s.signal ]

CountSells(fills) == Cardinality({k \in 1..Len(fills) : fills[k].direction = DIRECTION_SELL})

TickOrder_counting_rejections(e, signal, tick, t) ==
    IF signal = "None" THEN [eng |-> e, outcome |-> "no_order"]
    ELSE
    LET order   == generate_order(e.strategy, signal, e.symbol, tick.price)
        account == get_account_status(e)
        risk    == check(e.risk_manager, order, account, tick.price, t)
        e1      == [e EXCEPT !.risk_manager = risk.rm, !.total_trades = e.total_trades + 1]
    IN  IF risk.result # "Ok" THEN [eng |-> e1, outcome |-> "risk_rejected"]
        ELSE
        LET sub == submit_order(e1.gateway, order, tick.price)
        IN  IF ~sub.ok THEN [eng |-> [e1 EXCEPT !.gateway = sub.gw],
                             outcome |-> "gateway_rejected"]
            ELSE [eng |-> [e1 EXCEPT !.gateway = get_fills(sub.gw).gw], outcome |-> "filled"]

\* process_tick, lines 156-196: on a signal, the risk check and the order.
\* outcome names what happened to the order, for the observers.
TickOrder(e, signal, tick, t) ==
    IF signal = "None" THEN [eng |-> e, outcome |-> "no_order"]
    ELSE
    LET order   == generate_order(e.strategy, signal, e.symbol, tick.price)
        account == get_account_status(e)
        risk    == check(e.risk_manager, order, account, tick.price, t)
        e1      == [e EXCEPT !.risk_manager = risk.rm]
    IN  IF risk.result # "Ok" THEN [eng |-> e1, outcome |-> "risk_rejected"]
        ELSE
        LET sub == submit_order(e1.gateway, order, tick.price)
        IN  IF ~sub.ok THEN [eng |-> [e1 EXCEPT !.gateway = sub.gw],
                             outcome |-> "gateway_rejected"]
            ELSE
            LET drained == get_fills(sub.gw)
                pos     == query_position(drained.gw, e.symbol)
                sells   == CountSells(drained.fills)
            IN  [ eng |-> [e1 EXCEPT
                             !.gateway = drained.gw,
                             !.total_trades = e.total_trades + 1,
                             !.winning_trades =
                                 IF pos.some /\ pos.realized_pnl > 0
                                 THEN e.winning_trades + sells ELSE e.winning_trades,
                             !.losing_trades =
                                 IF pos.some /\ ~(pos.realized_pnl > 0) /\ pos.realized_pnl < 0
                                 THEN e.losing_trades + sells ELSE e.losing_trades],
                  outcome |-> "filled" ]

\* process_tick, lines 199-212: the account goes to the equity curve, the
\* balance, the peak and the risk manager.
TickFinish(e, account) ==
    [e EXCEPT !.equity_curve = Append(e.equity_curve, account.equity),
              !.balance = account.balance,
              !.peak_equity = IF account.equity > e.peak_equity
                              THEN account.equity ELSE e.peak_equity,
              !.risk_manager = update_equity(e.risk_manager, account.equity)]

process_tick_equity_before_order(e, tick, t) ==
    LET b == TickBegin(e, tick)
        o == TickOrder(b.eng, b.signal, tick, t)
    IN  [ eng |-> TickFinish(o.eng, query_account(b.eng.gateway)),
          ok |-> TRUE, signal |-> b.signal, outcome |-> o.outcome ]

process_tick(e, tick, t) ==
    IF ~e.initialized
    THEN [eng |-> e, ok |-> FALSE, signal |-> "None", outcome |-> "not_initialized"]
    ELSE
    LET b == TickBegin(e, tick)
        o == TickOrder(b.eng, b.signal, tick, t)
    IN  [ eng |-> TickFinish(o.eng, query_account(o.eng.gateway)),
          ok |-> TRUE, signal |-> b.signal, outcome |-> o.outcome ]

RunResetKeepingCurve(e) ==
    [e EXCEPT !.current_index = 0,
              !.strategy = strategy_reset(e.strategy),
              !.total_trades = 0, !.winning_trades = 0, !.losing_trades = 0]

\* run, lines 223-229
RunReset(e) ==
    [e EXCEPT !.current_index = 0,
              !.equity_curve = << >>,
              !.strategy = strategy_reset(e.strategy),
              !.total_trades = 0, !.winning_trades = 0, !.losing_trades = 0]

\* calculate_max_drawdown, in hundredths of a percent, rounded down
RECURSIVE MaxDrawdownFrom(_, _, _, _)
MaxDrawdownFrom(curve, i, peak, max_drawdown) ==
    IF i > Len(curve) THEN max_drawdown
    ELSE LET p  == IF curve[i] > peak THEN curve[i] ELSE peak
             dd == ((p - curve[i]) * 10000) \div p
         IN  MaxDrawdownFrom(curve, i + 1, p, IF dd > max_drawdown THEN dd ELSE max_drawdown)

calculate_max_drawdown(e) ==
    IF e.equity_curve = << >> THEN 0
    ELSE MaxDrawdownFrom(e.equity_curve, 1, e.equity_curve[1], 0)

\* run, lines 239-260.  total_return_pct is in hundredths of a percent;
\* sharpe_ratio, a function of the equity curve alone, is not carried.
RunResult(e) ==
    LET final_account == query_account(e.gateway)
    IN  [ ok                   |-> TRUE,
          final_equity         |-> final_account.equity,
          total_return_pct     |-> ((final_account.equity - e.initial_balance) * 10000)
                                       \div e.initial_balance,
          max_drawdown_pct     |-> calculate_max_drawdown(e),
          total_trades         |-> e.total_trades,
          winning_trades       |-> e.winning_trades,
          losing_trades        |-> e.losing_trades,
          actual_start_bar     |-> 0,
          first_trade_timestamp |-> 0 ]

RunError(kind) ==
    [ ok |-> FALSE, error |-> kind ]

(***************************************************************************)
(* One engine: constructed, loaded, run (possibly twice), with the wall    *)
(* clock advancing between ticks as the scheduler pleases.                 *)
(***************************************************************************)
EngPrices == {10000, 12000}

EngTickArrays ==
    { [i \in 1..NumTicks |-> Tick(i, f[i], 1000)] : f \in [1..NumTicks -> EngPrices] }

EngParams == { StrategyParams(1, 2, 1, w) : w \in {0, 4} }

EngRiskConfigs == { RiskConfig(r, 200, 100000, Frac(1, d)) : r \in {1, 10}, d \in {2, 10} }

EngBalances == {12005, 100000}

\* start, startWall: the engine and the wall clock when the run began;
\* prev: what the run before this one returned.
EngObsNone ==
    [ tickNo |-> 0, outcome |-> "none", checkedAt |-> {}, submittedAt |-> {},
      rejectedAt |-> {}, before |-> <<0, 0, 0>>, equityBeforeOrder |-> 0,
      equityAfter |-> << >>, start |-> << >>, startWall |-> 0,
      prev |-> [ok |-> FALSE, error |-> "none"] ]

Counters(e) == <<e.total_trades, e.winning_trades, e.losing_trades>>

EngInit ==
    /\ \E params \in EngParams, risk_config \in EngRiskConfigs, balance \in EngBalances :
          eng = with_initial_balance(BacktestEngineNew(params, risk_config), balance)
    /\ engPc = "new"
    /\ engRes = RunError("none")
    /\ engObs = EngObsNone
    /\ engRuns = 0
    /\ wall = 0

EngIdle ==
    /\ eng = BacktestEngineNew(StrategyParams(1, 2, 1, 0), RiskConfig(1, 200, 100000, Frac(1, 10)))
    /\ engPc = "new"
    /\ engRes = RunError("none")
    /\ engObs = EngObsNone
    /\ engRuns = 0
    /\ wall = 0

EngClockAdvance ==
    /\ engPc = "running"
    /\ wall < MaxWall
    /\ wall' = wall + 1
    /\ UNCHANGED <<eng, engPc, engRes, engObs, engRuns>>
    /\ UNCHANGED notEng

EngLoadData ==
    /\ engPc = "new"
    /\ \E ticks \in EngTickArrays : eng' = load_data_from_vectors(eng, ticks)
    /\ engPc' = "loaded"
    /\ UNCHANGED <<engRes, engObs, engRuns, wall>>
    /\ UNCHANGED notEng

\* run() on an engine without data: ValidationError, nothing changes.
EngRunNoData ==
    /\ engPc = "new"
    /\ eng.ticks = << >>
    /\ engRes # RunError("ValidationError")
    /\ engRes' = RunError("ValidationError")
    /\ UNCHANGED <<eng, engPc, engObs, engRuns, wall>>
    /\ UNCHANGED notEng

EngRunStart ==
    /\ engPc \in {"loaded", "done"}
    /\ engRuns < MaxRuns
    /\ eng.ticks # << >>
    /\ eng' = RunReset(eng)
    /\ engPc' = "running"
    /\ engObs' = [EngObsNone EXCEPT !.start = RunReset(eng), !.startWall = wall,
                                    !.prev = engRes]
    /\ engRuns' = engRuns + 1
    /\ UNCHANGED <<engRes, wall>>
    /\ UNCHANGED notEng

\* One iteration of run's loop: process_tick(tick)?; current_index += 1.
EngRunTick ==
    /\ engPc = "running"
    /\ eng.current_index < Len(eng.ticks)
    /\ LET tick == eng.ticks[eng.current_index + 1]
           n    == eng.current_index + 1
           r    == process_tick(eng, tick, wall)
           checked == r.outcome \in {"risk_rejected", "gateway_rejected", "filled"}
           submitted == r.outcome \in {"gateway_rejected", "filled"}
       IN  /\ eng' = IF r.ok THEN [r.eng EXCEPT !.current_index = n] ELSE r.eng
           /\ engPc' = IF r.ok THEN "running" ELSE "failed"
           /\ engRes' = IF r.ok THEN engRes ELSE RunError("EngineNotInitialized")
           /\ engObs' =
                 [ tickNo      |-> n,
                   outcome     |-> r.outcome,
                   checkedAt   |-> IF checked THEN engObs.checkedAt \cup {n}
                                   ELSE engObs.checkedAt,
                   submittedAt |-> IF submitted THEN engObs.submittedAt \cup {n}
                                   ELSE engObs.submittedAt,
                   rejectedAt  |-> IF r.outcome \in {"risk_rejected", "gateway_rejected"}
                                   THEN engObs.rejectedAt \cup {n} ELSE engObs.rejectedAt,
                   before      |-> Counters(eng),
                   equityBeforeOrder |-> query_account(TickBegin(eng, tick).eng.gateway).equity,
                   equityAfter |-> Append(engObs.equityAfter,
                                          query_account(r.eng.gateway).equity),
                   start       |-> engObs.start,
                   startWall   |-> engObs.startWall,
                   prev        |-> engObs.prev ]
    /\ UNCHANGED <<engRuns, wall>>
    /\ UNCHANGED notEng

EngRunFinish ==
    /\ engPc = "running"
    /\ eng.current_index = Len(eng.ticks)
    /\ engRes' = RunResult(eng)
    /\ engPc' = "done"
    /\ UNCHANGED <<eng, engObs, engRuns, wall>>
    /\ UNCHANGED notEng

EngNext ==
    \/ EngClockAdvance
    \/ EngLoadData
    \/ EngRunNoData
    \/ EngRunStart
    \/ EngRunTick
    \/ EngRunFinish

with_symbol(e, symbol) == [e EXCEPT !.symbol = symbol]

\* run's loop, lines 232-236, with every tick processed at the same wall-clock
\* instant t: the run in which no time passes between ticks.
RECURSIVE RunLoopAt(_, _)
RunLoopAt(e, t) ==
    IF e.current_index >= Len(e.ticks) THEN e
    ELSE LET r == process_tick(e, e.ticks[e.current_index + 1], t)
         IN  RunLoopAt([r.eng EXCEPT !.current_index = e.current_index + 1], t)

(***************************************************************************)
(* optimizer.rs: Optimizer                                                 *)
(***************************************************************************)
DefaultPositionSize == 100

ParameterRange(short_ma_range, long_ma_range, position_size_range) ==
    [ short_ma_range |-> short_ma_range, long_ma_range |-> long_ma_range,
      position_size_range |-> position_size_range ]

NoRange == [some |-> FALSE, start |-> 0, end |-> 0, step |-> 0]

SomeRange(start, end, step) == [some |-> TRUE, start |-> start, end |-> end, step |-> step]

OptimizerNew(risk_config) ==
    [ risk_config |-> risk_config, initial_balance |-> DefaultBalance,
      symbol |-> "BTCUSDT", progress |-> 0, total_combinations |-> 0 ]

\* progress.fetch_add(1, SeqCst), line 154
progress_fetch_add_two(o) == [o EXCEPT !.progress = @ + 2]

progress_fetch_add(o) == [o EXCEPT !.progress = @ + 1]

\* progress(): (completed, total)
progress(o) == [completed |-> o.progress, total |-> o.total_combinations]

\* generate_combinations, lines 94-104; the steps are positive
RECURSIVE PositionSizes(_, _, _)
PositionSizes(ps, ps_end, ps_step) ==
    IF ps <= ps_end THEN <<ps>> \o PositionSizes(ps + ps_step, ps_end, ps_step) ELSE << >>

\* generate_combinations, lines 90-118
RECURSIVE LongLoop(_, _, _)
LongLoop(short_ma, long_ma, range) ==
    IF long_ma <= range.long_ma_range.end
    THEN LET position_sizes ==
                 IF range.position_size_range.some
                 THEN PositionSizes(range.position_size_range.start,
                                    range.position_size_range.end,
                                    range.position_size_range.step)
                 ELSE <<DefaultPositionSize>>
             here == IF short_ma < long_ma
                     THEN [k \in 1..Len(position_sizes) |->
                             StrategyParams(short_ma, long_ma, position_sizes[k], 0)]
                     ELSE << >>
         IN  here \o LongLoop(short_ma, long_ma + range.long_ma_range.step, range)
    ELSE << >>

\* generate_combinations, lines 88-120
RECURSIVE ShortLoop(_, _)
ShortLoop(short_ma, range) ==
    IF short_ma <= range.short_ma_range.end
    THEN LongLoop(short_ma, range.long_ma_range.start, range)
         \o ShortLoop(short_ma + range.short_ma_range.step, range)
    ELSE << >>

generate_combinations(range) == ShortLoop(range.short_ma_range.start, range)

\* run_single_backtest up to the start of run()'s loop: the engine is built,
\* loaded and reset; ok is FALSE when the load or run() fails at once.
BacktestBegin(o, params, ticks) ==
    LET built == with_symbol(with_initial_balance(BacktestEngineNew(params, o.risk_config),
                                                  o.initial_balance), o.symbol)
    IN  IF ticks = << >> THEN [eng |-> built, ok |-> FALSE]
        ELSE [eng |-> RunReset(load_data_from_vectors(built, ticks)), ok |-> TRUE]

(***************************************************************************)
(* Sweeps: the workers of one sweep interleave tick by tick, and the wall  *)
(* clock advances between their steps as the scheduler pleases.            *)
(***************************************************************************)
OptTickArrays == EngTickArrays \cup {<< >>}

OptRanges ==
    { ParameterRange(SomeRange(1, 1, 1), SomeRange(2, 3, 1), ps) : ps \in {NoRange, SomeRange(1, 1, 1)} }

OptRiskConfigs == { RiskConfig(r, 200, 100000, Frac(1, 10)) : r \in {1, 10} }

NoResult == RunError("none")

OptInit ==
    /\ \E risk_config \in OptRiskConfigs : opt = OptimizerNew(risk_config)
    /\ \E ticks \in OptTickArrays, range \in OptRanges : optIn = [ticks |-> ticks, range |-> range]
    /\ optPc = "idle"
    /\ tasks = << >>
    /\ optResults = << >>
    /\ optWall = 0

OptIdle ==
    /\ opt = OptimizerNew(RiskConfig(1, 200, 100000, Frac(1, 10)))
    /\ optIn = [ticks |-> << >>, range |-> ParameterRange(SomeRange(1, 1, 1), SomeRange(2, 3, 1), NoRange)]
    /\ optPc = "idle"
    /\ tasks = << >>
    /\ optResults = << >>
    /\ optWall = 0

\* run_parameter_sweep, lines 133-135
SweepStart ==
    /\ optPc \in {"idle", "collected"}
    /\ Len(optResults) < MaxSweeps
    /\ LET combinations == generate_combinations(optIn.range)
       IN  /\ opt' = [opt EXCEPT !.total_combinations = Len(combinations), !.progress = 0]
           /\ tasks' = [i \in 1..Len(combinations) |->
                          [ params |-> combinations[i], pc |-> "pending",
                            eng |-> BacktestEngineNew(combinations[i], opt.risk_config),
                            result |-> NoResult ]]
    /\ optPc' = "sweeping"
    /\ UNCHANGED <<optIn, optResults, optWall>>
    /\ UNCHANGED notOpt

SweepClockAdvance ==
    /\ optPc = "sweeping"
    /\ optWall < MaxWall
    /\ optWall' = optWall + 1
    /\ UNCHANGED <<opt, optIn, optPc, tasks, optResults>>
    /\ UNCHANGED notOpt

\* A worker picks up a combination: run_single_backtest, lines 174-188.
TaskBegin(i) ==
    /\ optPc = "sweeping"
    /\ tasks[i].pc = "pending"
    /\ LET b == BacktestBegin(opt, tasks[i].params, optIn.ticks)
       IN  IF b.ok
           THEN /\ tasks' = [tasks EXCEPT ![i].eng = b.eng, ![i].pc = "running"]
                /\ opt' = opt
           ELSE /\ tasks' = [tasks EXCEPT ![i].eng = b.eng, ![i].pc = "done"]
                /\ opt' = progress_fetch_add(opt)
    /\ UNCHANGED <<optIn, optPc, optResults, optWall>>
    /\ UNCHANGED notOpt

\* One iteration of the loop of the worker's engine.run().
TaskTick(i) ==
    /\ optPc = "sweeping"
    /\ tasks[i].pc = "running"
    /\ tasks[i].eng.current_index < Len(tasks[i].eng.ticks)
    /\ LET e == tasks[i].eng
           r == process_tick(e, e.ticks[e.current_index + 1], optWall)
       IN  tasks' = [tasks EXCEPT ![i].eng = [r.eng EXCEPT !.current_index = e.current_index + 1]]
    /\ UNCHANGED <<opt, optIn, optPc, optResults, optWall>>
    /\ UNCHANGED notOpt

\* The worker's run() returns; progress.fetch_add(1), lines 154.
TaskFinish(i) ==
    /\ optPc = "sweeping"
    /\ tasks[i].pc = "running"
    /\ tasks[i].eng.current_index = Len(tasks[i].eng.ticks)
    /\ tasks' = [tasks EXCEPT ![i].result = RunResult(tasks[i].eng), ![i].pc = "done"]
    /\ opt' = progress_fetch_add(opt)
    /\ UNCHANGED <<optIn, optPc, optResults, optWall>>
    /\ UNCHANGED notOpt

\* filter_map(...).collect(), lines 156-163
SweepCollect ==
    /\ optPc = "sweeping"
    /\ \A i \in DOMAIN tasks : tasks[i].pc = "done"
    /\ optResults' = Append(optResults,
                            { [params |-> tasks[i].params, result |-> tasks[i].result] :
                                i \in {j \in DOMAIN tasks : tasks[j].result.ok} })
    /\ optPc' = "collected"
    /\ UNCHANGED <<opt, optIn, tasks, optWall>>
    /\ UNCHANGED notOpt

OptNext ==
    \/ SweepStart
    \/ SweepClockAdvance
    \/ \E i \in DOMAIN tasks : TaskBegin(i)
    \/ \E i \in DOMAIN tasks : TaskTick(i)
    \/ \E i \in DOMAIN tasks : TaskFinish(i)
    \/ SweepCollect

(***************************************************************************)
(* orderbook.rs and l1_gateway.rs: the L1 order book and execute_order.    *)
(* A book side is the sequence of its first bid_count / ask_count levels.  *)
(* Quantities are whole numbers and fill ratios are halves, with level     *)
(* quantities even, so that quantity * fill_ratio is exact.                *)
(***************************************************************************)
MAX_LEVELS == 10

OrderBookLevel(price, quantity) == [price |-> price, quantity |-> quantity]

level_is_empty(level) == level.quantity <= 0

OrderBookSnapshotDefault == [bids |-> << >>, asks |-> << >>, last_price |-> 0, timestamp |-> 0]

with_levels(bids, asks, last_price, timestamp) ==
    [ bids |-> SubSeq(bids, 1, Min(Len(bids), MAX_LEVELS)),
      asks |-> SubSeq(asks, 1, Min(Len(asks), MAX_LEVELS)),
      last_price |-> last_price, timestamp |-> timestamp ]

\* base_slippage, impact_factor and max_slippage on the common denominator den
SlippageModel(base, impact, max, den) ==
    [base_slippage |-> base, impact_factor |-> impact, max_slippage |-> max, den |-> den]

slippage_calculate(model, quantity) ==
    Frac(Min(model.base_slippage + model.impact_factor * quantity, model.max_slippage),
         model.den)

L1SimulatedGatewayNew(initial_balance, slippage_model, commission_rate) ==
    [ orderbook         |-> OrderBookSnapshotDefault,
      slippage_model    |-> slippage_model,
      commission_rate   |-> commission_rate,
      fill_ratio        |-> Frac(1, 2),
      current_prices    |-> EmptyMap,
      positions         |-> EmptyMap,
      balance           |-> initial_balance,
      initial_balance   |-> initial_balance,
      next_order_id     |-> 1,
      pending_fills     |-> << >>,
      current_timestamp |-> 0 ]

\* ratio.clamp(0.0, 1.0)
set_fill_ratio(g, ratio) ==
    [g EXCEPT !.fill_ratio = IF ratio.num < 0 THEN Frac(0, ratio.den)
                             ELSE IF ratio.num > ratio.den THEN Frac(ratio.den, ratio.den)
                             ELSE ratio]

update_orderbook(g, orderbook) == [g EXCEPT !.orderbook = orderbook]

RECURSIVE ExecuteLoop_consuming_whole_level(_, _, _, _, _)
ExecuteLoop_consuming_whole_level(g, order, levels, level_idx, acc) ==
    IF level_idx > Len(levels) THEN acc
    ELSE IF acc.remaining <= 0 \/ level_is_empty(levels[level_idx]) THEN acc
    ELSE
    LET level      == levels[level_idx]
        available  == MulFrac(level.quantity, g.fill_ratio)
        fill_qty   == Min(acc.remaining, available)
        slippage   == slippage_calculate(g.slippage_model, fill_qty)
        fill_price == IF order.direction = DIRECTION_BUY
                      THEN level.price + MulFrac(level.price, slippage)
                      ELSE level.price - MulFrac(level.price, slippage)
    IN  ExecuteLoop_consuming_whole_level(g, order, levels, level_idx + 1,
                    [ remaining  |-> acc.remaining - available,
                      total_cost |-> acc.total_cost + fill_price * fill_qty,
                      fills      |-> Append(acc.fills,
                                            [ price |-> fill_price, quantity |-> fill_qty,
                                              level |-> level_idx - 1 ]) ])

\* execute_order's loop over the levels, lines 210-235
RECURSIVE ExecuteLoop(_, _, _, _, _)
ExecuteLoop(g, order, levels, level_idx, acc) ==
    IF level_idx > Len(levels) THEN acc
    ELSE IF acc.remaining <= 0 \/ level_is_empty(levels[level_idx]) THEN acc
    ELSE
    LET level      == levels[level_idx]
        available  == MulFrac(level.quantity, g.fill_ratio)
        fill_qty   == Min(acc.remaining, available)
        slippage   == slippage_calculate(g.slippage_model, fill_qty)
        fill_price == IF order.direction = DIRECTION_BUY
                      THEN level.price + MulFrac(level.price, slippage)
                      ELSE level.price - MulFrac(level.price, slippage)
    IN  ExecuteLoop(g, order, levels, level_idx + 1,
                    [ remaining  |-> acc.remaining - fill_qty,
                      total_cost |-> acc.total_cost + fill_price * fill_qty,
                      fills      |-> Append(acc.fills,
                                            [ price |-> fill_price, quantity |-> fill_qty,
                                              level |-> level_idx - 1 ]) ])

execute_order_skipping_empty_levels(g, order) ==
    LET side   == IF order.direction = DIRECTION_BUY THEN g.orderbook.asks ELSE g.orderbook.bids
        levels == SelectSeq(side, LAMBDA level : ~level_is_empty(level))
        done   == ExecuteLoop(g, order, levels, 1,
                              [remaining |-> order.quantity, total_cost |-> 0, fills |-> << >>])
        filled_quantity == order.quantity - done.remaining
    IN  [ fills           |-> done.fills,
          unfilled        |-> done.remaining,
          average_price   |-> IF filled_quantity > 0
                              THEN done.total_cost \div filled_quantity ELSE 0,
          filled_quantity |-> filled_quantity ]

execute_order(g, order) ==
    LET levels == IF order.direction = DIRECTION_BUY THEN g.orderbook.asks ELSE g.orderbook.bids
        done   == ExecuteLoop(g, order, levels, 1,
                              [remaining |-> order.quantity, total_cost |-> 0, fills |-> << >>])
        filled_quantity == order.quantity - done.remaining
    IN  [ fills           |-> done.fills,
          unfilled        |-> done.remaining,
          average_price   |-> IF filled_quantity > 0
                              THEN done.total_cost \div filled_quantity ELSE 0,
          filled_quantity |-> filled_quantity ]

\* submit_order, lines 299-314: the book's fill if anything was filled, else
\* the whole order at current_price with slippage.
FillOf(g, order, current_price) ==
    LET fill_result == execute_order(g, order)
    IN  IF fill_result.filled_quantity > 0
        THEN [ price |-> fill_result.average_price,
               quantity |-> fill_result.filled_quantity, fallback |-> FALSE ]
        ELSE LET slippage == slippage_calculate(g.slippage_model, order.quantity)
             IN  [ price |-> IF order.direction = DIRECTION_BUY
                             THEN current_price + MulFrac(current_price, slippage)
                             ELSE current_price - MulFrac(current_price, slippage),
                   quantity |-> order.quantity, fallback |-> TRUE ]

\* L1SimulatedGateway::submit_order.  Lines 331-369 update the position as
\* gateway.rs does, with fill_quantity in the place of order.quantity.
l1_submit_order(g, order, current_price) ==
    IF order.quantity <= 0 THEN GwErr(g, "InvalidOrder")
    ELSE IF order.direction # DIRECTION_BUY /\ order.direction # DIRECTION_SELL
    THEN GwErr(g, "InvalidOrder")
    ELSE
    LET symbol      == order.symbol
        chosen      == FillOf(g, order, current_price)
        fill_price  == chosen.price
        fill_quantity == chosen.quantity
        trade_value == fill_quantity * fill_price
        commission  == calculate_commission(g, trade_value)
        current_position ==
            IF symbol \in DOMAIN g.positions THEN g.positions[symbol].quantity ELSE 0
    IN  IF lacks_funds(g, order, current_position, trade_value + commission)
        THEN GwErr(g, "InsufficientFunds")
        ELSE
        LET order_id == g.next_order_id
            position ==
                IF symbol \in DOMAIN g.positions THEN g.positions[symbol]
                ELSE [symbol |-> symbol, quantity |-> 0,
                      average_price |-> 0, realized_pnl |-> 0]
            fill == [ order_id   |-> order_id,
                      symbol     |-> order.symbol,
                      quantity   |-> fill_quantity,
                      price      |-> fill_price,
                      commission |-> commission,
                      direction  |-> order.direction,
                      timestamp  |-> g.current_timestamp ]
        IN  [ gw |-> [g EXCEPT
                        !.next_order_id = order_id + 1,
                        !.positions = Put(g.positions, symbol,
                                          ApplyFill(position,
                                                    [order EXCEPT !.quantity = fill_quantity],
                                                    fill_price)),
                        !.balance = IF order.direction = DIRECTION_BUY
                                    THEN g.balance - (trade_value + commission)
                                    ELSE g.balance + (trade_value - commission),
                        !.current_prices = Put(g.current_prices, symbol, current_price),
                        !.pending_fills = Append(g.pending_fills, fill)],
              ok |-> TRUE, err |-> "", order_id |-> order_id ]

(***************************************************************************)
(* The L1 gateway under arbitrary books, fill ratios and orders            *)
(***************************************************************************)
L1LevelQuantities == {0, 2, 4}

BookSides(prices) ==
    UNION { { [i \in 1..n |-> OrderBookLevel(prices[i], q[i])] : q \in [1..n -> L1LevelQuantities] }
            : n \in 0..MaxBookLevels }

L1AskPrices == [i \in 1..(MaxBookLevels + 1) |-> 100 + i]

L1BidPrices == [i \in 1..(MaxBookLevels + 1) |-> 100 - i]

L1Ratios == { Frac(n, 2) : n \in {0 - 1, 0, 1, 2, 3} }

L1Orders ==
    { OrderRequest("BTCUSDT", q, d) : q \in {0 - 2, 0, 1, 2, 3, 5}, d \in {DIRECTION_BUY, DIRECTION_SELL} }

\* Of a submit_order call: ok, err: what it returned; unchanged: the gateway
\* after the call is the gateway before it; side, ratio: the side of the book
\* the order consumes and the fill ratio at the call; fill: the quantity of
\* the fill it recorded; fallback: the fill was the one at current_price.
L1CallNone ==
    [ op |-> "none", order |-> NoOrder,
      result |-> [fills |-> << >>, unfilled |-> 0, average_price |-> 0, filled_quantity |-> 0],
      ok |-> TRUE, err |-> "", unchanged |-> TRUE, side |-> << >>, ratio |-> Frac(0, 1),
      fill |-> 0, fallback |-> FALSE ]

L1SubmitPrices == {100, 50000}

L1Init ==
    /\ l1 = L1SimulatedGatewayNew(100000, SlippageModel(1, 1, 100, 10000), Frac(0, 1))
    /\ l1Last = L1CallNone
    /\ l1Calls = 0

L1Idle == L1Init

L1SetFillRatio ==
    /\ l1Calls < MaxL1Calls
    /\ \E ratio \in L1Ratios : l1' = set_fill_ratio(l1, ratio)
    /\ l1Last' = [L1CallNone EXCEPT !.op = "set_fill_ratio"]
    /\ l1Calls' = l1Calls + 1
    /\ UNCHANGED notL1

L1UpdateOrderbook ==
    /\ l1Calls < MaxL1Calls
    /\ \E bids \in BookSides(L1BidPrices), asks \in BookSides(L1AskPrices) :
          l1' = update_orderbook(l1, with_levels(bids, asks, 100, 0))
    /\ l1Last' = [L1CallNone EXCEPT !.op = "update_orderbook"]
    /\ l1Calls' = l1Calls + 1
    /\ UNCHANGED notL1

L1ExecuteOrder ==
    /\ l1Calls < MaxL1Calls
    /\ \E order \in L1Orders :
          l1Last' = [L1CallNone EXCEPT !.op = "execute_order", !.order = order,
                                       !.result = execute_order(l1, order)]
    /\ l1Calls' = l1Calls + 1
    /\ UNCHANGED l1
    /\ UNCHANGED notL1

\* The books, and the orders, of the gateway that takes orders: sides with no
\* level, one level, a leading empty level, two levels; orders of positive
\* and zero quantity and one of an unknown direction.
L1SubmitSides(prices) ==
    { << >>,
      <<OrderBookLevel(prices[1], 2)>>,
      <<OrderBookLevel(prices[1], 0), OrderBookLevel(prices[2], 4)>>,
      <<OrderBookLevel(prices[1], 2), OrderBookLevel(prices[2], 4)>> }

L1SubmitOrders ==
    { OrderRequest("BTCUSDT", q, d) : q \in {0, 1, 3, 5}, d \in {DIRECTION_BUY, DIRECTION_SELL} }
    \cup {OrderRequest("BTCUSDT", 1, 0)}

L1LoadBook ==
    /\ l1Calls < MaxL1Calls
    /\ \E bids \in L1SubmitSides(L1BidPrices), asks \in L1SubmitSides(L1AskPrices) :
          l1' = update_orderbook(l1, with_levels(bids, asks, 100, 0))
    /\ l1Last' = [L1CallNone EXCEPT !.op = "update_orderbook"]
    /\ l1Calls' = l1Calls + 1
    /\ UNCHANGED notL1

L1Submitted(order, r, chosen) ==
    /\ l1' = r.gw
    /\ l1Last' = [L1CallNone EXCEPT
                     !.op = "submit_order", !.order = order,
                     !.ok = r.ok, !.err = r.err,
                     !.unchanged = (r.gw = l1),
                     !.side = IF order.direction = DIRECTION_BUY
                              THEN l1.orderbook.asks ELSE l1.orderbook.bids,
                     !.ratio = l1.fill_ratio,
                     !.fill = IF r.ok THEN chosen.quantity ELSE 0,
                     !.fallback = r.ok /\ chosen.fallback]

L1SubmitOrder ==
    /\ l1Calls < MaxL1Calls
    /\ \E order \in L1SubmitOrders, p \in L1SubmitPrices :
          L1Submitted(order, l1_submit_order(l1, order, p), FillOf(l1, order, p))
    /\ l1Calls' = l1Calls + 1
    /\ UNCHANGED notL1

L1Next == L1SetFillRatio \/ L1UpdateOrderbook \/ L1ExecuteOrder

L1OrdersNext == L1SetFillRatio \/ L1LoadBook \/ L1SubmitOrder

(***************************************************************************)
(* emergency.rs: the global halt flag                                      *)
(***************************************************************************)
is_halted(flag) == flag

check_halt(flag) == IF is_halted(flag) THEN "RiskRejected" ELSE "Ok"

HaltIdle == EMERGENCY_HALT = FALSE

notHalt == <<gwVars, rmVars, busVars, tmVars, optVars, l1Vars, wmVars, s3Vars, stratVars, dlVars, dbVars, logVars, latVars, gcVars>>

activate_emergency_stop ==
    /\ ~EMERGENCY_HALT
    /\ EMERGENCY_HALT' = TRUE
    /\ UNCHANGED engVars
    /\ UNCHANGED notHalt

reset_emergency_stop ==
    /\ EMERGENCY_HALT
    /\ EMERGENCY_HALT' = FALSE
    /\ UNCHANGED engVars
    /\ UNCHANGED notHalt

\* An engine run with the halt flag set and cleared at any moment.
HaltNext ==
    \/ activate_emergency_stop
    \/ reset_emergency_stop
    \/ EngClockAdvance
    \/ EngLoadData
    \/ EngRunNoData
    \/ EngRunStart
    \/ EngRunTick
    \/ EngRunFinish

(***************************************************************************)
(* Gateway under arbitrary calls                                           *)
(***************************************************************************)
GwSymbols == {"BTCUSDT", "ETHUSDT"}

GwPrices == {10, 20}

\* Orders offered to the gateway: valid buys and sells on two symbols, and the
\* two kinds of invalid order (non-positive quantity, unknown direction).
GwOrders ==
    { OrderRequest("BTCUSDT", q, d) : q \in {1, 2}, d \in {DIRECTION_BUY, DIRECTION_SELL} }
    \cup { OrderRequest("ETHUSDT", 1, d) : d \in {DIRECTION_BUY, DIRECTION_SELL} }
    \cup { OrderRequest("BTCUSDT", 0, DIRECTION_BUY), OrderRequest("BTCUSDT", 1, 0) }

\* The observer of the last call.  accepted: the order ids that submit_order
\* returned since the previous get_fills; fills, expected: what a get_fills
\* call returned and the accepted ids at that call; drained: the order ids of
\* the fills returned by get_fills so far; redelivered: a get_fills call
\* returned a fill that an earlier one had returned; unchanged: the gateway
\* after a submit_order call is the gateway before it.
GwCall(op, ok, err, order, price, g) ==
    [ op |-> op, ok |-> ok, err |-> err, order |-> order, price |-> price,
      balance_before  |-> g.balance,
      position_before |-> IF order.symbol \in DOMAIN g.positions
                          THEN g.positions[order.symbol].quantity ELSE 0,
      accepted |-> << >>, fills |-> << >>, expected |-> << >>,
      drained |-> {}, redelivered |-> FALSE, unchanged |-> TRUE ]

FillIds(fills) == {fills[i].order_id : i \in 1..Len(fills)}

GwCallNone == GwCall("none", TRUE, "", NoOrder, 0, GatewayNew(0, Frac(0, 1), Frac(0, 1)))

GwInit ==
    /\ \E s \in {Frac(0, 1), Frac(1, 10)} :
          gw = GatewayNew(50, s, Frac(1, 10))
    /\ market = EmptyMap
    /\ gwLast = GwCallNone
    /\ gwCalls = 0

GwSubmitOrder ==
    /\ gwCalls < MaxGwCalls
    /\ \E order \in GwOrders, p \in GwPrices :
          LET r == submit_order(gw, order, p)
          IN  /\ gw' = r.gw
              /\ market' = IF r.ok THEN Put(market, order.symbol, p) ELSE market
              /\ gwLast' = [GwCall("submit_order", r.ok, r.err, order, p, gw) EXCEPT
                               !.accepted = IF r.ok THEN Append(gwLast.accepted, r.order_id)
                                            ELSE gwLast.accepted,
                               !.drained = gwLast.drained,
                               !.redelivered = gwLast.redelivered,
                               !.unchanged = (r.gw = gw)]
    /\ gwCalls' = gwCalls + 1
    /\ UNCHANGED notGw

GwUpdatePrice ==
    /\ gwCalls < MaxGwCalls
    /\ \E sym \in GwSymbols, p \in GwPrices :
          /\ gw' = update_price(gw, sym, p)
          /\ market' = Put(market, sym, p)
    /\ gwLast' = [GwCallNone EXCEPT !.op = "update_price",
                                    !.accepted = gwLast.accepted,
                                    !.drained = gwLast.drained,
                                    !.redelivered = gwLast.redelivered]
    /\ gwCalls' = gwCalls + 1
    /\ UNCHANGED notGw

GwGetFills ==
    /\ gwCalls < MaxGwCalls
    /\ LET r == get_fills(gw)
       IN  /\ gw' = r.gw
           /\ gwLast' = [GwCallNone EXCEPT
                            !.op = "get_fills",
                            !.fills = r.fills,
                            !.expected = gwLast.accepted,
                            !.drained = gwLast.drained \cup FillIds(r.fills),
                            !.redelivered = \/ gwLast.redelivered
                                            \/ FillIds(r.fills) \cap gwLast.drained # {}]
    /\ gwCalls' = gwCalls + 1
    /\ UNCHANGED market
    /\ UNCHANGED notGw

GwNext == GwSubmitOrder \/ GwUpdatePrice \/ GwGetFills

\* A program drives one of the two gateway implementations.
GatewaysNext ==
    \/ (l1Calls = 0 /\ GwSubmitOrder)
    \/ (l1Calls = 0 /\ GwUpdatePrice)
    \/ (l1Calls = 0 /\ GwGetFills)
    \/ (gwCalls = 0 /\ L1SetFillRatio)
    \/ (gwCalls = 0 /\ L1LoadBook)
    \/ (gwCalls = 0 /\ L1SubmitOrder)

(***************************************************************************)
(* data_loader.rs: DataLoader::load_from_vectors.  An f64 is a finite      *)
(* number, NaN or positive infinity.                                       *)
(***************************************************************************)
Finite(v) == [kind |-> "finite", v |-> v]

NaN == [kind |-> "NaN", v |-> 0]

Infinity == [kind |-> "inf", v |-> 0]

is_finite(x) == x.kind = "finite"

\* x <= 0.0 and x < 0.0: false of NaN and of positive infinity.
LeZero(x) == is_finite(x) /\ x.v <= 0

LtZero(x) == is_finite(x) /\ x.v < 0

DataLoaderNew == [price_jump_threshold |-> Frac(1, 10)]

with_price_jump_threshold(loader, threshold) ==
    [loader EXCEPT !.price_jump_threshold = threshold]

LoadAcc ==
    [ valid_ticks |-> << >>, invalid_count |-> 0, anomaly_count |-> 0,
      anomaly_indices |-> << >>,
      prev_timestamp |-> [some |-> FALSE, v |-> 0],
      prev_price |-> [some |-> FALSE, v |-> 0] ]

rejects_ignoring_timestamps(acc, timestamp, price, volume) ==
    \/ LeZero(price) \/ ~is_finite(price)
    \/ LtZero(volume) \/ ~is_finite(volume)

\* The three validations of a row (lines 355-373).
rejects(acc, timestamp, price, volume) ==
    \/ LeZero(price) \/ ~is_finite(price)
    \/ LtZero(volume) \/ ~is_finite(volume)
    \/ acc.prev_timestamp.some /\ timestamp <= acc.prev_timestamp.v

\* change_pct > price_jump_threshold, cross-multiplied (lines 375-385).
is_anomaly(loader, acc, price) ==
    /\ acc.prev_price.some
    /\ acc.prev_price.v > 0
    /\ Abs(price.v - acc.prev_price.v) * loader.price_jump_threshold.den
          > loader.price_jump_threshold.num * acc.prev_price.v

\* The loop over the rows from index i (1-based here, 0-based in
\* anomaly_indices as in the code).
RECURSIVE LoadLoop(_, _, _, _, _, _)
LoadLoop(loader, timestamps, prices, volumes, i, acc) ==
    IF i > Len(timestamps) THEN acc
    ELSE IF rejects(acc, timestamps[i], prices[i], volumes[i])
    THEN LoadLoop(loader, timestamps, prices, volumes, i + 1,
                  [acc EXCEPT !.invalid_count = @ + 1])
    ELSE
    LET anomaly == is_anomaly(loader, acc, prices[i])
    IN  LoadLoop(loader, timestamps, prices, volumes, i + 1,
                 [acc EXCEPT
                    !.anomaly_count = IF anomaly THEN @ + 1 ELSE @,
                    !.anomaly_indices = IF anomaly THEN Append(@, i - 1) ELSE @,
                    !.valid_ticks = Append(@, Tick(timestamps[i], prices[i], volumes[i])),
                    !.prev_timestamp = [some |-> TRUE, v |-> timestamps[i]],
                    !.prev_price = [some |-> TRUE, v |-> prices[i].v]])

load_from_vectors(loader, timestamps, prices, volumes) ==
    IF Len(timestamps) # Len(prices) \/ Len(prices) # Len(volumes)
    THEN [ok |-> FALSE, error |-> "ValidationError"]
    ELSE IF timestamps = << >>
    THEN [ok |-> FALSE, error |-> "ValidationError"]
    ELSE
    LET acc == LoadLoop(loader, timestamps, prices, volumes, 1, LoadAcc)
    IN  [ ok |-> TRUE,
          ticks |-> acc.valid_ticks,
          report |-> [ total_ticks     |-> Len(timestamps),
                       valid_ticks     |-> Len(acc.valid_ticks),
                       invalid_ticks   |-> acc.invalid_count,
                       anomaly_ticks   |-> acc.anomaly_count,
                       first_timestamp |-> timestamps[1],
                       last_timestamp  |-> timestamps[Len(timestamps)] ],
          anomaly_indices |-> acc.anomaly_indices ]

(***************************************************************************)
(* The loader applied to arbitrary columns                                 *)
(***************************************************************************)
\* The rows offered: four valid ones (two timestamps, two prices a fifth
\* apart) and one for each way of being invalid.
DlRow(timestamp, price, volume) == [timestamp |-> timestamp, price |-> price, volume |-> volume]

DlRows ==
    { DlRow(t, Finite(p), Finite(5)) : t \in {1, 2}, p \in {10, 12} }
    \cup { DlRow(1, Finite(0), Finite(5)), DlRow(1, NaN, Finite(5)),
           DlRow(2, Finite(10), Finite(0 - 1)), DlRow(2, Finite(10), Infinity) }

DlColumnsOf(rows) ==
    [ timestamps |-> [i \in 1..Len(rows) |-> rows[i].timestamp],
      prices     |-> [i \in 1..Len(rows) |-> rows[i].price],
      volumes    |-> [i \in 1..Len(rows) |-> rows[i].volume] ]

\* Columns of equal length up to MaxColumnLen, and the one-row columns with
\* the volume missing.
DlColumns ==
    { DlColumnsOf(rows) : rows \in UNION { [1..n -> DlRows] : n \in 0..MaxColumnLen } }

DlInputs ==
    DlColumns \cup { [DlColumnsOf(<<r>>) EXCEPT !.volumes = << >>] : r \in DlRows }

DlNoResult == [ok |-> FALSE, error |-> "none"]

DlIdle ==
    /\ dlLoader = DataLoaderNew
    /\ dlIn = [timestamps |-> << >>, prices |-> << >>, volumes |-> << >>]
    /\ dlOut = DlNoResult
    /\ dlPc = "ready"

DlInit ==
    /\ dlLoader = DataLoaderNew
    /\ dlIn \in DlInputs
    /\ dlOut = DlNoResult
    /\ dlPc = "ready"

DlWithThreshold ==
    /\ dlPc = "ready"
    /\ dlLoader = DataLoaderNew
    /\ dlLoader' = with_price_jump_threshold(dlLoader, Frac(1, 4))
    /\ UNCHANGED <<dlIn, dlOut, dlPc>>
    /\ UNCHANGED notDl

DlLoad ==
    /\ dlPc = "ready"
    /\ dlOut' = load_from_vectors(dlLoader, dlIn.timestamps, dlIn.prices, dlIn.volumes)
    /\ dlPc' = "loaded"
    /\ UNCHANGED <<dlLoader, dlIn>>
    /\ UNCHANGED notDl

DlNext == DlWithThreshold \/ DlLoad

(***************************************************************************)
(* persistence.rs: PersistenceManager, the positions table.  A table is    *)
(* the set of its rows; the rowid column id is left out, no statement      *)
(* reads it.                                                               *)
(***************************************************************************)
PositionRecord(symbol, quantity, average_price, unrealized_pnl) ==
    [ symbol |-> symbol, quantity |-> quantity,
      average_price |-> average_price, unrealized_pnl |-> unrealized_pnl ]

PositionRow(position, session_date) ==
    [ symbol |-> position.symbol, quantity |-> position.quantity,
      average_price |-> position.average_price,
      unrealized_pnl |-> position.unrealized_pnl, session_date |-> session_date ]

\* create_tables: positions has symbol TEXT NOT NULL UNIQUE.
PersistenceManagerNew == [positions |-> {}]

\* INSERT OR REPLACE: the rows that conflict with the new one on the UNIQUE
\* column symbol are deleted, then the new row is inserted.
save_position(d, position, session_date) ==
    [d EXCEPT !.positions =
        {r \in d.positions : r.symbol # position.symbol}
        \cup {PositionRow(position, session_date)}]

\* SELECT ... FROM positions WHERE session_date = ?1
recover_positions(d, session_date) ==
    { PositionRecord(r.symbol, r.quantity, r.average_price, r.unrealized_pnl) :
        r \in {x \in d.positions : x.session_date = session_date} }

\* DELETE FROM positions WHERE session_date = ?1
clear_session(d, session_date) ==
    [d EXCEPT !.positions = {r \in d.positions : r.session_date # session_date}]

(***************************************************************************)
(* Persistence manager under arbitrary calls                               *)
(***************************************************************************)
DbSessions == {"2024-01-01", "2024-01-02"}

DbPositions ==
    { PositionRecord(sym, q, 40000, 0) : sym \in {"BTCUSDT", "ETHUSDT"}, q \in {1, 2} }

DbCallNone ==
    [ op |-> "none", position |-> PositionRecord("", 0, 0, 0), session_date |-> "",
      before |-> {} ]

DbIdle ==
    /\ db = PersistenceManagerNew
    /\ dbLast = DbCallNone
    /\ dbCalls = 0

DbSavePosition ==
    /\ dbCalls < MaxDbCalls
    /\ \E position \in DbPositions, session_date \in DbSessions :
          /\ db' = save_position(db, position, session_date)
          /\ dbLast' = [ op |-> "save_position", position |-> position,
                         session_date |-> session_date, before |-> db.positions ]
    /\ dbCalls' = dbCalls + 1
    /\ UNCHANGED notDb

DbClearSession ==
    /\ dbCalls < MaxDbCalls
    /\ \E session_date \in DbSessions :
          /\ db' = clear_session(db, session_date)
          /\ dbLast' = [DbCallNone EXCEPT !.op = "clear_session",
                                          !.session_date = session_date,
                                          !.before = db.positions]
    /\ dbCalls' = dbCalls + 1
    /\ UNCHANGED notDb

DbNext == DbSavePosition \/ DbClearSession

(***************************************************************************)
(* logger.rs: the global callback pointer and log().  The pointer carries  *)
(* the number of the set_log_callback call that stored it, which the       *)
(* program does not have; null is pointer 0.                               *)
(***************************************************************************)
NullCallback == [ptr |-> 0, reg |-> 0]

set_log_callback(callback, reg) == [ptr |-> callback, reg |-> reg]

clear_log_callback_keeping_pointer(current) == current

clear_log_callback(current) == NullCallback

has_log_callback(current) == current.ptr # 0

(***************************************************************************)
(* Threads that log while the callback is set and cleared.  A log call     *)
(* starts, loads the pointer, and invokes what it loaded unless that is    *)
(* null or the message has an interior NUL.                                *)
(***************************************************************************)
LogThreads == 1..NumLoggers

LogCallbacks == {1, 2}

\* regs: set_log_callback calls so far; cleared: the last store was a clear;
\* start: per thread, regs and cleared when its current log call started;
\* invocations: callback invocations so far; stale: a log call that started
\* after a clear invoked a callback registered before that clear; last:
\* the last completed log call.
LogObsNone ==
    [ regs |-> 0, cleared |-> FALSE,
      start |-> [t \in LogThreads |-> [regs |-> 0, cleared |-> FALSE]],
      invocations |-> 0, stale |-> FALSE,
      last |-> [thread |-> 0, startedCleared |-> FALSE, invoked |-> 0] ]

LogIdle ==
    /\ LOG_CALLBACK = NullCallback
    /\ logPc = [t \in LogThreads |-> "idle"]
    /\ logPtr = [t \in LogThreads |-> NullCallback]
    /\ logObs = LogObsNone
    /\ logSteps = 0

LogSetCallback ==
    /\ logSteps < MaxLogSteps
    /\ \E callback \in LogCallbacks :
          LOG_CALLBACK' = set_log_callback(callback, logObs.regs + 1)
    /\ logObs' = [logObs EXCEPT !.regs = @ + 1, !.cleared = FALSE]
    /\ logSteps' = logSteps + 1
    /\ UNCHANGED <<logPc, logPtr>>
    /\ UNCHANGED notLog

LogClearCallback ==
    /\ logSteps < MaxLogSteps
    /\ LOG_CALLBACK' = clear_log_callback(LOG_CALLBACK)
    /\ logObs' = [logObs EXCEPT !.cleared = TRUE]
    /\ logSteps' = logSteps + 1
    /\ UNCHANGED <<logPc, logPtr>>
    /\ UNCHANGED notLog

LogStart(t) ==
    /\ logSteps < MaxLogSteps
    /\ logPc[t] = "idle"
    /\ logPc' = [logPc EXCEPT ![t] = "started"]
    /\ logObs' = [logObs EXCEPT !.start[t] = [regs |-> logObs.regs, cleared |-> logObs.cleared]]
    /\ logSteps' = logSteps + 1
    /\ UNCHANGED <<LOG_CALLBACK, logPtr>>
    /\ UNCHANGED notLog

\* let ptr = LOG_CALLBACK.load(SeqCst); if ptr.is_null() { return; }
LogLoad(t) ==
    /\ logPc[t] = "started"
    /\ logPtr' = [logPtr EXCEPT ![t] = LOG_CALLBACK]
    /\ IF LOG_CALLBACK.ptr = 0
       THEN /\ logPc' = [logPc EXCEPT ![t] = "idle"]
            /\ logObs' = [logObs EXCEPT !.last = [thread |-> t,
                                                  startedCleared |-> logObs.start[t].cleared,
                                                  invoked |-> 0]]
       ELSE /\ logPc' = [logPc EXCEPT ![t] = "loaded"]
            /\ logObs' = logObs
    /\ UNCHANGED <<LOG_CALLBACK, logSteps>>
    /\ UNCHANGED notLog

\* if let Ok(c_string) = CString::new(message) { callback(level, ptr) }
LogInvoke(t) ==
    /\ logPc[t] = "loaded"
    /\ logPc' = [logPc EXCEPT ![t] = "idle"]
    /\ \E c_string_ok \in BOOLEAN :
          logObs' =
            IF c_string_ok
            THEN [logObs EXCEPT
                    !.invocations = @ + 1,
                    !.stale = \/ @
                              \/ /\ logObs.start[t].cleared
                                 /\ logPtr[t].reg <= logObs.start[t].regs,
                    !.last = [thread |-> t,
                              startedCleared |-> logObs.start[t].cleared,
                              invoked |-> logPtr[t].reg]]
            ELSE [logObs EXCEPT
                    !.last = [thread |-> t,
                              startedCleared |-> logObs.start[t].cleared,
                              invoked |-> 0]]
    /\ UNCHANGED <<LOG_CALLBACK, logPtr, logSteps>>
    /\ UNCHANGED notLog

LogNext ==
    \/ LogSetCallback
    \/ LogClearCallback
    \/ \E t \in LogThreads : LogStart(t)
    \/ \E t \in LogThreads : LogLoad(t)
    \/ \E t \in LogThreads : LogInvoke(t)

(***************************************************************************)
(* latency.rs: LatencyTracker.  Every field is an atomic that record,      *)
(* get_stats and reset load and store one at a time with Relaxed ordering; *)
(* each load, store, fetch_add and compare_exchange is one step.  The      *)
(* percentiles, the only readers of the sample buffer, are not carried.    *)
(***************************************************************************)
MAX_SAMPLES == 10000

\* u64::MAX, the initial minimum: the largest integer the checker carries,
\* above every latency recorded here.
U64_MAX == 2147483647

LatencyTrackerNew ==
    [ min_ns |-> U64_MAX, max_ns |-> 0, sum_ns |-> 0, count |-> 0, last_ns |-> 0,
      samples |-> EmptyMap, write_index |-> 0,
      enabled |-> TRUE, sample_rate |-> 1, sample_counter |-> 0 ]

LatencyStatsDefault ==
    [ min_ns |-> 0, max_ns |-> 0, avg_ns |-> 0, sample_count |-> 0, last_ns |-> 0 ]

LatLatencies == {1, 3}

RecLocalNone == [latency_ns |-> 0, current |-> 0, index |-> 0]

StatLocalNone == [count |-> 0, min_ns |-> 0, max_ns |-> 0, sum_ns |-> 0]

LatObsNone == [recorded |-> << >>, stats |-> 0, resets |-> 0]

LatIdle ==
    /\ lat = LatencyTrackerNew
    /\ recPc = "idle"
    /\ recLocal = RecLocalNone
    /\ statPc = "idle"
    /\ statLocal = StatLocalNone
    /\ statOut = LatencyStatsDefault
    /\ resetPc = "idle"
    /\ latObs = LatObsNone

\* record, lines 81-90: enabled, the sampling counter and the rate.
RecBegin ==
    /\ recPc = "idle"
    /\ Len(latObs.recorded) < MaxRecords
    /\ \E latency_ns \in LatLatencies :
          /\ recLocal' = [RecLocalNone EXCEPT !.latency_ns = latency_ns]
          /\ latObs' = [latObs EXCEPT !.recorded = Append(@, latency_ns)]
    /\ lat' = [lat EXCEPT !.sample_counter = @ + 1]
    /\ recPc' = IF ~lat.enabled THEN "idle"
                ELSE IF lat.sample_rate > 1 /\ lat.sample_counter % lat.sample_rate # 0
                THEN "idle" ELSE "min_load"
    /\ UNCHANGED <<statPc, statLocal, statOut, resetPc>>
    /\ UNCHANGED notLat

\* line 93
RecMinLoad ==
    /\ recPc = "min_load"
    /\ recLocal' = [recLocal EXCEPT !.current = lat.min_ns]
    /\ recPc' = "min_cas"
    /\ UNCHANGED <<lat, statPc, statLocal, statOut, resetPc, latObs>>
    /\ UNCHANGED notLat

\* lines 94-104: compare_exchange_weak stores when the minimum is still the
\* one loaded, and otherwise (or spuriously) hands back the present one.
RecMinCas ==
    /\ recPc = "min_cas"
    /\ IF ~(recLocal.latency_ns < recLocal.current)
       THEN recPc' = "max_load" /\ UNCHANGED <<lat, recLocal>>
       ELSE \/ /\ lat.min_ns = recLocal.current
               /\ lat' = [lat EXCEPT !.min_ns = recLocal.latency_ns]
               /\ recPc' = "max_load"
               /\ UNCHANGED recLocal
            \/ /\ recLocal' = [recLocal EXCEPT !.current = lat.min_ns]
               /\ UNCHANGED <<lat, recPc>>
    /\ UNCHANGED <<statPc, statLocal, statOut, resetPc, latObs>>
    /\ UNCHANGED notLat

\* line 107
RecMaxLoad ==
    /\ recPc = "max_load"
    /\ recLocal' = [recLocal EXCEPT !.current = lat.max_ns]
    /\ recPc' = "max_cas"
    /\ UNCHANGED <<lat, statPc, statLocal, statOut, resetPc, latObs>>
    /\ UNCHANGED notLat

\* lines 108-118
RecMaxCas ==
    /\ recPc = "max_cas"
    /\ IF ~(recLocal.latency_ns > recLocal.current)
       THEN recPc' = "sum" /\ UNCHANGED <<lat, recLocal>>
       ELSE \/ /\ lat.max_ns = recLocal.current
               /\ lat' = [lat EXCEPT !.max_ns = recLocal.latency_ns]
               /\ recPc' = "sum"
               /\ UNCHANGED recLocal
            \/ /\ recLocal' = [recLocal EXCEPT !.current = lat.max_ns]
               /\ UNCHANGED <<lat, recPc>>
    /\ UNCHANGED <<statPc, statLocal, statOut, resetPc, latObs>>
    /\ UNCHANGED notLat

\* line 121
RecSum ==
    /\ recPc = "sum"
    /\ lat' = [lat EXCEPT !.sum_ns = @ + recLocal.latency_ns]
    /\ recPc' = "count"
    /\ UNCHANGED <<recLocal, statPc, statLocal, statOut, resetPc, latObs>>
    /\ UNCHANGED notLat

\* line 122
RecCount ==
    /\ recPc = "count"
    /\ lat' = [lat EXCEPT !.count = @ + 1]
    /\ recPc' = "last"
    /\ UNCHANGED <<recLocal, statPc, statLocal, statOut, resetPc, latObs>>
    /\ UNCHANGED notLat

\* line 123
RecLast ==
    /\ recPc = "last"
    /\ lat' = [lat EXCEPT !.last_ns = recLocal.latency_ns]
    /\ recPc' = "index"
    /\ UNCHANGED <<recLocal, statPc, statLocal, statOut, resetPc, latObs>>
    /\ UNCHANGED notLat

\* line 126
RecIndex ==
    /\ recPc = "index"
    /\ recLocal' = [recLocal EXCEPT !.index = lat.write_index % MAX_SAMPLES]
    /\ lat' = [lat EXCEPT !.write_index = @ + 1]
    /\ recPc' = "store"
    /\ UNCHANGED <<statPc, statLocal, statOut, resetPc, latObs>>
    /\ UNCHANGED notLat

\* line 127
RecStore ==
    /\ recPc = "store"
    /\ lat' = [lat EXCEPT !.samples = Put(@, recLocal.index, recLocal.latency_ns)]
    /\ recPc' = "idle"
    /\ recLocal' = RecLocalNone
    /\ UNCHANGED <<statPc, statLocal, statOut, resetPc, latObs>>
    /\ UNCHANGED notLat

\* get_stats, lines 132-135; one get_stats call is made.
StatCount ==
    /\ statPc = "idle"
    /\ latObs.stats = 0
    /\ latObs' = [latObs EXCEPT !.stats = @ + 1]
    /\ IF lat.count = 0
       THEN /\ statOut' = LatencyStatsDefault
            /\ UNCHANGED <<statPc, statLocal>>
       ELSE /\ statLocal' = [StatLocalNone EXCEPT !.count = lat.count]
            /\ statPc' = "min"
            /\ UNCHANGED statOut
    /\ UNCHANGED <<lat, recPc, recLocal, resetPc>>
    /\ UNCHANGED notLat

\* line 137
StatMin ==
    /\ statPc = "min"
    /\ statLocal' = [statLocal EXCEPT !.min_ns = lat.min_ns]
    /\ statPc' = "max"
    /\ UNCHANGED <<lat, recPc, recLocal, statOut, resetPc, latObs>>
    /\ UNCHANGED notLat

\* line 138
StatMax ==
    /\ statPc = "max"
    /\ statLocal' = [statLocal EXCEPT !.max_ns = lat.max_ns]
    /\ statPc' = "sum"
    /\ UNCHANGED <<lat, recPc, recLocal, statOut, resetPc, latObs>>
    /\ UNCHANGED notLat

\* line 139
StatSum ==
    /\ statPc = "sum"
    /\ statLocal' = [statLocal EXCEPT !.sum_ns = lat.sum_ns]
    /\ statPc' = "last"
    /\ UNCHANGED <<lat, recPc, recLocal, statOut, resetPc, latObs>>
    /\ UNCHANGED notLat

\* lines 140-176: the last load, the average and the returned structure.
StatLast ==
    /\ statPc = "last"
    /\ statOut' = [ min_ns |-> IF statLocal.min_ns = U64_MAX THEN 0 ELSE statLocal.min_ns,
                    max_ns |-> statLocal.max_ns,
                    avg_ns |-> statLocal.sum_ns \div statLocal.count,
                    sample_count |-> statLocal.count,
                    last_ns |-> lat.last_ns ]
    /\ statPc' = "idle"
    /\ statLocal' = StatLocalNone
    /\ UNCHANGED <<lat, recPc, recLocal, resetPc, latObs>>
    /\ UNCHANGED notLat

\* reset, lines 181-189, one store at a time; one reset call is made.
ResetMin ==
    /\ resetPc = "idle"
    /\ latObs.resets = 0
    /\ latObs' = [latObs EXCEPT !.resets = @ + 1]
    /\ lat' = [lat EXCEPT !.min_ns = U64_MAX]
    /\ resetPc' = "max"
    /\ UNCHANGED <<recPc, recLocal, statPc, statLocal, statOut>>
    /\ UNCHANGED notLat

ResetMax ==
    /\ resetPc = "max"
    /\ lat' = [lat EXCEPT !.max_ns = 0]
    /\ resetPc' = "sum"
    /\ UNCHANGED <<recPc, recLocal, statPc, statLocal, statOut, latObs>>
    /\ UNCHANGED notLat

ResetSum ==
    /\ resetPc = "sum"
    /\ lat' = [lat EXCEPT !.sum_ns = 0]
    /\ resetPc' = "count"
    /\ UNCHANGED <<recPc, recLocal, statPc, statLocal, statOut, latObs>>
    /\ UNCHANGED notLat

ResetCount ==
    /\ resetPc = "count"
    /\ lat' = [lat EXCEPT !.count = 0]
    /\ resetPc' = "last"
    /\ UNCHANGED <<recPc, recLocal, statPc, statLocal, statOut, latObs>>
    /\ UNCHANGED notLat

ResetLast ==
    /\ resetPc = "last"
    /\ lat' = [lat EXCEPT !.last_ns = 0]
    /\ resetPc' = "index"
    /\ UNCHANGED <<recPc, recLocal, statPc, statLocal, statOut, latObs>>
    /\ UNCHANGED notLat

ResetIndex ==
    /\ resetPc = "index"
    /\ lat' = [lat EXCEPT !.write_index = 0]
    /\ resetPc' = "samples"
    /\ UNCHANGED <<recPc, recLocal, statPc, statLocal, statOut, latObs>>
    /\ UNCHANGED notLat

\* lines 187-189: the buffer is cleared slot by slot; nothing carried here
\* reads it, and the slots are cleared in one step.
ResetSamples ==
    /\ resetPc = "samples"
    /\ lat' = [lat EXCEPT !.samples = [i \in DOMAIN lat.samples |-> 0]]
    /\ resetPc' = "idle"
    /\ UNCHANGED <<recPc, recLocal, statPc, statLocal, statOut, latObs>>
    /\ UNCHANGED notLat

LatNext ==
    \/ RecBegin \/ RecMinLoad \/ RecMinCas \/ RecMaxLoad \/ RecMaxCas
    \/ RecSum \/ RecCount \/ RecLast \/ RecIndex \/ RecStore
    \/ StatCount \/ StatMin \/ StatMax \/ StatSum \/ StatLast
    \/ ResetMin \/ ResetMax \/ ResetSum \/ ResetCount \/ ResetLast
    \/ ResetIndex \/ ResetSamples

(***************************************************************************)
(* optimizer.rs: generate_combinations, loop iteration by loop iteration.  *)
(* The i32 periods are narrowed to IntBits bits, so that a period stepped  *)
(* downwards reaches the end of its range: there `+=` panics in a build    *)
(* with overflow checks and wraps around in one without.  A vector that    *)
(* outgrows MaxCombinations elements fails to allocate, which aborts.      *)
(***************************************************************************)
I32_MIN == 0 - 2 ^ (IntBits - 1)

I32_MAX == 2 ^ (IntBits - 1) - 1

Wrap(v) == ((v - I32_MIN) % (2 ^ IntBits)) + I32_MIN

GcSteps == {0 - 1, 0, 1}

GcRanges ==
    { ParameterRange(SomeRange(1, 2, s), SomeRange(2, 3, l), p) :
        s \in GcSteps, l \in GcSteps,
        p \in {NoRange} \cup { SomeRange(1, 2, q) : q \in GcSteps } }
    \cup { ParameterRange(SomeRange(3, 3, 1), SomeRange(2, 2, l), NoRange) : l \in GcSteps }

GcLocalNone == [short_ma |-> 0, long_ma |-> 0, ps |-> 0, sizes |-> << >>, combinations |-> << >>]

GcIdle ==
    /\ gcIn = ParameterRange(SomeRange(1, 1, 1), SomeRange(2, 2, 1), NoRange)
    /\ gcPc = "idle"
    /\ gcLocal = GcLocalNone

GcInit ==
    /\ gcIn \in GcRanges
    /\ gcPc = "idle"
    /\ gcLocal = GcLocalNone

\* lines 83-88
GcBegin ==
    /\ gcPc = "idle"
    /\ gcLocal' = [GcLocalNone EXCEPT !.short_ma = gcIn.short_ma_range.start]
    /\ gcPc' = "short_test"
    /\ UNCHANGED gcIn
    /\ UNCHANGED notGc

\* lines 89-90: while short_ma <= short_end { let mut long_ma = long_start;
GcShortTest ==
    /\ gcPc = "short_test"
    /\ IF gcLocal.short_ma <= gcIn.short_ma_range.end
       THEN /\ gcLocal' = [gcLocal EXCEPT !.long_ma = gcIn.long_ma_range.start]
            /\ gcPc' = "long_test"
       ELSE /\ gcPc' = "done"
            /\ UNCHANGED gcLocal
    /\ UNCHANGED gcIn
    /\ UNCHANGED notGc

\* lines 91-104: while long_ma <= long_end { if short_ma < long_ma { ..
GcLongTest ==
    /\ gcPc = "long_test"
    /\ IF gcLocal.long_ma <= gcIn.long_ma_range.end
       THEN IF gcLocal.short_ma < gcLocal.long_ma
            THEN IF gcIn.position_size_range.some
                 THEN /\ gcLocal' = [gcLocal EXCEPT !.sizes = << >>,
                                                     !.ps = gcIn.position_size_range.start]
                      /\ gcPc' = "sizes"
                 ELSE /\ gcLocal' = [gcLocal EXCEPT !.sizes = <<DefaultPositionSize>>]
                      /\ gcPc' = "push"
            ELSE /\ gcPc' = "long_step"
                 /\ UNCHANGED gcLocal
       ELSE /\ gcPc' = "short_step"
            /\ UNCHANGED gcLocal
    /\ UNCHANGED gcIn
    /\ UNCHANGED notGc

\* lines 97-100: while ps <= ps_end { sizes.push(ps); ps += ps_step; }
GcSizes ==
    /\ gcPc = "sizes"
    /\ IF gcLocal.ps <= gcIn.position_size_range.end
       THEN IF Len(gcLocal.sizes) >= MaxCombinations
            THEN /\ gcPc' = "aborted"
                 /\ UNCHANGED gcLocal
            ELSE /\ gcLocal' = [gcLocal EXCEPT
                                   !.sizes = Append(@, gcLocal.ps),
                                   !.ps = @ + gcIn.position_size_range.step]
                 /\ UNCHANGED gcPc
       ELSE /\ gcPc' = "push"
            /\ UNCHANGED gcLocal
    /\ UNCHANGED gcIn
    /\ UNCHANGED notGc

\* lines 106-115: one StrategyParams for each position size
GcPush ==
    /\ gcPc = "push"
    /\ LET pushed == [i \in 1..Len(gcLocal.sizes) |->
                         StrategyParams(gcLocal.short_ma, gcLocal.long_ma, gcLocal.sizes[i], 0)]
       IN  IF Len(gcLocal.combinations) + Len(pushed) > MaxCombinations
           THEN /\ gcPc' = "aborted"
                /\ UNCHANGED gcLocal
           ELSE /\ gcLocal' = [gcLocal EXCEPT !.combinations = @ \o pushed]
                /\ gcPc' = "long_step"
    /\ UNCHANGED gcIn
    /\ UNCHANGED notGc

\* line 117: long_ma += long_step;
GcLongStep ==
    /\ gcPc = "long_step"
    /\ LET v == gcLocal.long_ma + gcIn.long_ma_range.step
       IN  IF v >= I32_MIN /\ v <= I32_MAX
           THEN /\ gcLocal' = [gcLocal EXCEPT !.long_ma = v]
                /\ gcPc' = "long_test"
           ELSE \/ /\ gcPc' = "panicked"
                   /\ UNCHANGED gcLocal
                \/ /\ gcLocal' = [gcLocal EXCEPT !.long_ma = Wrap(v)]
                   /\ gcPc' = "long_test"
    /\ UNCHANGED gcIn
    /\ UNCHANGED notGc

\* line 119: short_ma += short_step;
GcShortStep ==
    /\ gcPc = "short_step"
    /\ LET v == gcLocal.short_ma + gcIn.short_ma_range.step
       IN  IF v >= I32_MIN /\ v <= I32_MAX
           THEN /\ gcLocal' = [gcLocal EXCEPT !.short_ma = v]
                /\ gcPc' = "short_test"
           ELSE \/ /\ gcPc' = "panicked"
                   /\ UNCHANGED gcLocal
                \/ /\ gcLocal' = [gcLocal EXCEPT !.short_ma = Wrap(v)]
                   /\ gcPc' = "short_test"
    /\ UNCHANGED gcIn
    /\ UNCHANGED notGc

GcNext ==
    \/ GcBegin \/ GcShortTest \/ GcLongTest \/ GcSizes \/ GcPush
    \/ GcLongStep \/ GcShortStep

(***************************************************************************)
(* The worked example of a Simple gateway: initial balance 100 000,        *)
(* slippage 0.01, commission rate 0, orders of one or two BTCUSDT at       *)
(* 50 000 or 51 000.                                                       *)
(***************************************************************************)
S3Prices == {50000, 51000}

S3Orders == { OrderRequest("BTCUSDT", q, d) : q \in {1, 2}, d \in {DIRECTION_BUY, DIRECTION_SELL} }

S3Call(op, order, price) == [op |-> op, order |-> order, price |-> price]

S3Idle == s3Trace = << >>

S3Init ==
    /\ gw = GatewayNew(100000, Frac(1, 100), Frac(0, 1))
    /\ market = EmptyMap
    /\ gwLast = GwCallNone
    /\ gwCalls = 0
    /\ s3Trace = << >>

S3SubmitOrder ==
    /\ Len(s3Trace) < MaxS3Calls
    /\ \E order \in S3Orders, p \in S3Prices :
          /\ gw' = submit_order(gw, order, p).gw
          /\ s3Trace' = Append(s3Trace, S3Call("submit_order", order, p))
    /\ UNCHANGED <<market, gwLast, gwCalls>>
    /\ UNCHANGED notGwS3

S3UpdatePrice ==
    /\ Len(s3Trace) < MaxS3Calls
    /\ \E p \in S3Prices :
          /\ gw' = update_price(gw, "BTCUSDT", p)
          /\ s3Trace' = Append(s3Trace, S3Call("update_price", NoOrder, p))
    /\ UNCHANGED <<market, gwLast, gwCalls>>
    /\ UNCHANGED notGwS3

S3GetFills ==
    /\ Len(s3Trace) < MaxS3Calls
    /\ gw' = get_fills(gw).gw
    /\ s3Trace' = Append(s3Trace, S3Call("get_fills", NoOrder, 0))
    /\ UNCHANGED <<market, gwLast, gwCalls>>
    /\ UNCHANGED notGwS3

S3Next == S3SubmitOrder \/ S3UpdatePrice \/ S3GetFills

(***************************************************************************)
(* The Dual-MA strategy over arbitrary price sequences                     *)
(***************************************************************************)
StratPrices == {10, 12, 14}

StratParams == { StrategyParams(1, 2, 1, 0), StrategyParams(2, 3, 1, 0) }

StratObsNone == [last |-> "None", signal |-> "None", repeated |-> FALSE, signals |-> 0]

StratIdle ==
    /\ strat = DualMAStrategyNew(StrategyParams(1, 2, 1, 0))
    /\ stratObs = StratObsNone
    /\ stratTicks = 0

StratInit ==
    /\ \E params \in StratParams : strat = DualMAStrategyNew(params)
    /\ stratObs = StratObsNone
    /\ stratTicks = 0

StratOnTick ==
    /\ stratTicks < MaxStratTicks
    /\ \E price \in StratPrices :
          LET r == on_tick(strat, Tick(stratTicks + 1, price, 1000))
          IN  /\ strat' = r.st
              /\ stratObs' =
                    IF r.signal = "None" THEN [stratObs EXCEPT !.signal = "None"]
                    ELSE [ last |-> r.signal, signal |-> r.signal,
                           repeated |-> stratObs.repeated \/ r.signal = stratObs.last,
                           signals |-> stratObs.signals + 1 ]
    /\ stratTicks' = stratTicks + 1
    /\ UNCHANGED notStrat

\* reset() starts a new price sequence.
StratReset ==
    /\ stratTicks > 0
    /\ stratTicks < MaxStratTicks
    /\ strat' = strategy_reset(strat)
    /\ stratObs' = [stratObs EXCEPT !.last = "None", !.signal = "None"]
    /\ stratTicks' = stratTicks + 1
    /\ UNCHANGED notStrat

StratNext == StratOnTick \/ StratReset

(***************************************************************************)
(* Warmup manager under arbitrary calls                                    *)
(***************************************************************************)
WmBars == {0 - 1, 0, 1, 2, 3}

WmTimestamps == {10, 20}

WmObsNone == [ticks |-> 0, op |-> "new", ret |-> FALSE]

WmIdle ==
    /\ wm = WarmupManagerNew(0)
    /\ wmK = 0
    /\ wmObs = WmObsNone
    /\ wmCalls = 0

WmInit ==
    /\ wmK \in WmBars
    /\ wm = WarmupManagerNew(wmK)
    /\ wmObs = WmObsNone
    /\ wmCalls = 0

WmTick ==
    /\ wmCalls < MaxWmCalls
    /\ \E timestamp \in WmTimestamps :
          /\ wm' = warmup_tick(wm, timestamp)
          /\ wmObs' = [ticks |-> wmObs.ticks + 1, op |-> "tick", ret |-> is_warmed_up(wm')]
    /\ wmCalls' = wmCalls + 1
    /\ UNCHANGED wmK
    /\ UNCHANGED notWm

WmReset ==
    /\ wmCalls < MaxWmCalls
    /\ wm' = warmup_reset(wm)
    /\ wmObs' = [ticks |-> 0, op |-> "reset", ret |-> FALSE]
    /\ wmCalls' = wmCalls + 1
    /\ UNCHANGED wmK
    /\ UNCHANGED notWm

WmNext == WmTick \/ WmReset

(***************************************************************************)
(* Specifications: each drives one component and leaves the others in      *)
(* their constructed state.                                                *)
(***************************************************************************)
GwIdle ==
    /\ gw = GatewayNew(50, Frac(0, 1), Frac(1, 10))
    /\ market = EmptyMap
    /\ gwLast = GwCallNone
    /\ gwCalls = 0

RmIdle ==
    /\ rm = RiskManagerNew(RiskConfig(1, 200, 1000, Frac(1, 2)))
    /\ now = 0
    /\ okTimes = << >>
    /\ rmLast = RmCallNone
    /\ rmCalls = 0

InitGateway == GwInit /\ RmIdle /\ BusIdle /\ TmIdle /\ EngIdle /\ OptIdle /\ L1Idle /\ WmIdle /\ S3Idle /\ StratIdle /\ DlIdle /\ DbIdle /\ LogIdle /\ LatIdle /\ GcIdle /\ HaltIdle

SpecGateway == InitGateway /\ [][GwNext]_vars

InitRisk == RmInit /\ GwIdle /\ BusIdle /\ TmIdle /\ EngIdle /\ OptIdle /\ L1Idle /\ WmIdle /\ S3Idle /\ StratIdle /\ DlIdle /\ DbIdle /\ LogIdle /\ LatIdle /\ GcIdle /\ HaltIdle

SpecRisk == InitRisk /\ [][RmNext]_vars

InitBus == BusIdle /\ GwIdle /\ RmIdle /\ TmIdle /\ EngIdle /\ OptIdle /\ L1Idle /\ WmIdle /\ S3Idle /\ StratIdle /\ DlIdle /\ DbIdle /\ LogIdle /\ LatIdle /\ GcIdle /\ HaltIdle

SpecBus == InitBus /\ [][BusNext]_vars

InitShared == SharedInit /\ GwIdle /\ RmIdle /\ TmIdle /\ EngIdle /\ OptIdle /\ L1Idle /\ WmIdle /\ S3Idle /\ StratIdle /\ DlIdle /\ DbIdle /\ LogIdle /\ LatIdle /\ GcIdle /\ HaltIdle

SpecShared == InitShared /\ [][SharedNext]_vars

InitTimer == TmIdle /\ GwIdle /\ RmIdle /\ BusIdle /\ EngIdle /\ OptIdle /\ L1Idle /\ WmIdle /\ S3Idle /\ StratIdle /\ DlIdle /\ DbIdle /\ LogIdle /\ LatIdle /\ GcIdle /\ HaltIdle

SpecTimer == InitTimer /\ [][TmNext]_vars

InitEngine == EngInit /\ GwIdle /\ RmIdle /\ BusIdle /\ TmIdle /\ OptIdle /\ L1Idle /\ WmIdle /\ S3Idle /\ StratIdle /\ DlIdle /\ DbIdle /\ LogIdle /\ LatIdle /\ GcIdle /\ HaltIdle

SpecEngine == InitEngine /\ [][EngNext]_vars

InitSweep == OptInit /\ GwIdle /\ RmIdle /\ BusIdle /\ TmIdle /\ EngIdle /\ L1Idle /\ WmIdle /\ S3Idle /\ StratIdle /\ DlIdle /\ DbIdle /\ LogIdle /\ LatIdle /\ GcIdle /\ HaltIdle

SpecSweep == InitSweep /\ [][OptNext]_vars

InitL1 == L1Init /\ GwIdle /\ RmIdle /\ BusIdle /\ TmIdle /\ EngIdle /\ OptIdle /\ WmIdle /\ S3Idle /\ StratIdle /\ DlIdle /\ DbIdle /\ LogIdle /\ LatIdle /\ GcIdle /\ HaltIdle

SpecL1 == InitL1 /\ [][L1Next]_vars

InitL1Orders == InitL1

SpecL1Orders == InitL1Orders /\ [][L1OrdersNext]_vars

InitGateways == InitGateway

SpecGateways == InitGateways /\ [][GatewaysNext]_vars

InitWarmup == WmInit /\ GwIdle /\ RmIdle /\ BusIdle /\ TmIdle /\ EngIdle /\ OptIdle /\ L1Idle /\ S3Idle /\ StratIdle /\ DlIdle /\ DbIdle /\ LogIdle /\ LatIdle /\ GcIdle /\ HaltIdle

SpecWarmup == InitWarmup /\ [][WmNext]_vars

InitS3 == S3Init /\ RmIdle /\ BusIdle /\ TmIdle /\ EngIdle /\ OptIdle /\ L1Idle /\ WmIdle /\ StratIdle /\ DlIdle /\ DbIdle /\ LogIdle /\ LatIdle /\ GcIdle /\ HaltIdle

SpecS3 == InitS3 /\ [][S3Next]_vars

InitStrategy == StratInit /\ GwIdle /\ RmIdle /\ BusIdle /\ TmIdle /\ EngIdle /\ OptIdle /\ L1Idle /\ WmIdle /\ S3Idle /\ DlIdle /\ DbIdle /\ LogIdle /\ LatIdle /\ GcIdle /\ HaltIdle

SpecStrategy == InitStrategy /\ [][StratNext]_vars

InitLoader == DlInit /\ GwIdle /\ RmIdle /\ BusIdle /\ TmIdle /\ EngIdle /\ OptIdle /\ L1Idle /\ WmIdle /\ S3Idle /\ StratIdle /\ DbIdle /\ LogIdle /\ LatIdle /\ GcIdle /\ HaltIdle

SpecLoader == InitLoader /\ [][DlNext]_vars

InitDb == DbIdle /\ GwIdle /\ RmIdle /\ BusIdle /\ TmIdle /\ EngIdle /\ OptIdle /\ L1Idle /\ WmIdle /\ S3Idle /\ StratIdle /\ DlIdle /\ LogIdle /\ LatIdle /\ GcIdle /\ HaltIdle

SpecDb == InitDb /\ [][DbNext]_vars

InitLogger == LogIdle /\ GwIdle /\ RmIdle /\ BusIdle /\ TmIdle /\ EngIdle /\ OptIdle /\ L1Idle /\ WmIdle /\ S3Idle /\ StratIdle /\ DlIdle /\ DbIdle /\ LatIdle /\ GcIdle /\ HaltIdle

SpecLogger == InitLogger /\ [][LogNext]_vars

InitLatency == LatIdle /\ LogIdle /\ GwIdle /\ RmIdle /\ BusIdle /\ TmIdle /\ EngIdle /\ OptIdle /\ L1Idle /\ WmIdle /\ S3Idle /\ StratIdle /\ DlIdle /\ DbIdle /\ GcIdle /\ HaltIdle

SpecLatency == InitLatency /\ [][LatNext]_vars

InitCombinations == GcInit /\ LatIdle /\ LogIdle /\ GwIdle /\ RmIdle /\ BusIdle /\ TmIdle /\ EngIdle /\ OptIdle /\ L1Idle /\ WmIdle /\ S3Idle /\ StratIdle /\ DlIdle /\ DbIdle /\ HaltIdle

SpecCombinations == InitCombinations /\ [][GcNext]_vars

\* The thread that runs generate_combinations is scheduled as long as it has
\* a step to take.
SpecCombinationsFair == SpecCombinations /\ WF_vars(GcNext)

InitHalt == InitEngine

SpecHalt == InitHalt /\ [][HaltNext]_vars

(***************************************************************************)
(* C3: in every gateway state reachable by submit_order and update_price   *)
(* calls, the equity reported by query_account equals the balance plus,    *)
(* over all positions, (last price supplied for the symbol - average       *)
(* price) * quantity.                                                      *)
(***************************************************************************)
C3_EquityIdentity ==
    /\ DOMAIN gw.positions \subseteq DOMAIN market
    /\ query_account(gw).equity =
          gw.balance
          + SumOver([s \in DOMAIN gw.positions |->
                        (market[s] - gw.positions[s].average_price)
                        * gw.positions[s].quantity],
                    DOMAIN gw.positions)

C3_Witness ==
    /\ gwLast.op = "update_price"
    /\ \E s \in DOMAIN gw.positions :
          /\ gw.positions[s].quantity # 0
          /\ market[s] # gw.positions[s].average_price
    /\ query_account(gw).equity # gw.balance
    /\ C3_EquityIdentity

(***************************************************************************)
(* C2: for any max_order_rate r, once r check_throttle calls have          *)
(* succeeded within one second, a further call made within that same       *)
(* second fails with ThrottleExceeded.                                     *)
(***************************************************************************)
C2_ThrottleRejectsExcess ==
    LET throttled == \/ rmLast.op = "check_throttle"
                     \/ rmLast.op = "check" /\ rmLast.result # "InsufficientCapital"
    IN  (throttled /\ rmLast.recentOk >= rm.config.max_order_rate)
            => rmLast.result = "ThrottleExceeded"

C2_Witness ==
    /\ rmLast.op = "check_throttle"
    /\ rm.config.max_order_rate = 2
    /\ rmLast.recentOk = 2
    /\ rmLast.result = "ThrottleExceeded"
    /\ now > 0

(***************************************************************************)
(* C4 as stated: over any sequence of publishes during which no subscriber *)
(* channel becomes full, delivered equals the number of (subscriber,       *)
(* event) pairs whose filter matches the event, and dropped is 0.          *)
(***************************************************************************)
C4_DeliveredEqualsMatching ==
    ~busObs.becameFull =>
        /\ stats(bus).events_delivered = busObs.matched
        /\ stats(bus).events_dropped = 0

(***************************************************************************)
(* C4 amended: under the same condition, delivered equals the number of    *)
(* (subscriber, event) pairs whose filter matches the event and whose      *)
(* receiving end is still alive at the publish; dropped is 0.              *)
(***************************************************************************)
C4_DeliveredEqualsMatchingLive ==
    ~busObs.becameFull =>
        /\ stats(bus).events_delivered = busObs.matchedLive
        /\ stats(bus).events_dropped = 0

C4_Witness ==
    /\ ~busObs.becameFull
    /\ bus.events_published >= 2
    /\ Len(bus.subscribers) = 2
    /\ busObs.matchedLive >= 2
    /\ busObs.matchedLive < busObs.matched
    /\ stats(bus).events_delivered = busObs.matchedLive

(***************************************************************************)
(* C5: when several threads publish through a mutex-wrapped bus and the    *)
(* total number of events is within the subscriber's channel capacity, no  *)
(* event is lost: every published event matching the subscriber's filter   *)
(* is in the channel or has been received, exactly once.                   *)
(***************************************************************************)
C5_NoLossUnderConcurrency ==
    LET got      == received[1] \o chans[1].queue
        sent     == {ThreadEvent(t, i) : t \in Threads, i \in 0..(EventsPerThread - 1)}
        expected == {e \in sent :
                        /\ \E t \in Threads : \E i \in 0..(pubSent[t] - 1) : e = ThreadEvent(t, i)
                        /\ Selects(bus.subscribers[1].filter, e.kind)}
    IN  chans[1].capacity >= TotalEvents =>
            /\ Len(got) = Cardinality(expected)
            /\ \A e \in expected : Cardinality({k \in 1..Len(got) : got[k] = e}) = 1

C5_Witness ==
    /\ chans[1].capacity >= TotalEvents
    /\ \A t \in Threads : pubPc[t] = "done"
    /\ chans[1].queue = << >>
    /\ Len(received[1]) = TotalEvents
    /\ received[1][1] = ThreadEvent(2, 0)
    /\ received[1][2] = ThreadEvent(1, 0)
    /\ bus.subscribers[1].filter = FilterTimerOnly

\* The number of scheduled firing times t0 + j*i (j >= 1) that are <= t.
FiringsUpTo(o, t) ==
    Cardinality({j \in 1..(MaxTime + 1) : o.t0 + j * o.interval <= t})

(***************************************************************************)
(* C7 as stated: for a repeating timer scheduled at manager time t0 with   *)
(* interval i > 0 (and not cancelled), once the manager has been processed *)
(* up to time t it has emitted exactly one Timer event for each scheduled  *)
(* firing time t0 + j*i <= t.                                              *)
(***************************************************************************)
C7_EveryFiringEmittedOnce ==
    \A id \in DOMAIN tmObs :
        LET o == tmObs[id]
        IN  (o.repeating /\ o.interval > 0 /\ ~o.cancelled)
                => o.emitted = FiringsUpTo(o, o.processedTo)

(***************************************************************************)
(* C7 amended: the same, provided no process call was made a whole         *)
(* interval or more after the timer's pending trigger time (each process   *)
(* call emits at most one event per timer and advances it by one           *)
(* interval).                                                              *)
(***************************************************************************)
C7_EveryFiringEmittedOnceIfNotOverrun ==
    \A id \in DOMAIN tmObs :
        LET o == tmObs[id]
        IN  (o.repeating /\ o.interval > 0 /\ ~o.cancelled /\ ~o.overran)
                => o.emitted = FiringsUpTo(o, o.processedTo)

C7_Witness ==
    \E id \in DOMAIN tmObs :
        LET o == tmObs[id]
        IN  /\ o.repeating /\ o.interval = 2 /\ ~o.cancelled /\ ~o.overran
            /\ o.t0 = 1
            /\ o.processedTo = 5
            /\ o.emitted = 2

(***************************************************************************)
(* Engine claims                                                           *)
(***************************************************************************)
Rejections == {"risk_rejected", "gateway_rejected"}

\* C1: with warmup_bars = k > 0, no order is checked by the risk manager or
\* submitted to the gateway on a tick processed before the warmup manager
\* has counted k ticks.
C1_NoOrderDuringWarmup ==
    eng.params.warmup_bars > 0 =>
        \A n \in engObs.checkedAt \cup engObs.submittedAt :
            is_warmed_up(WarmupAfter(WarmupManagerNew(eng.params.warmup_bars), eng.ticks, n))

\* C8: a fill made by the order of tick i is in the gateway's balance and
\* position before the equity of tick i is appended, so the entry appended
\* for a tick with a fill is the equity of the account after that fill.
C8_EquityReflectsFill ==
    (engObs.outcome = "filled" /\ engPc \in {"running", "done"}) =>
        /\ eng.equity_curve # << >>
        /\ eng.equity_curve[Len(eng.equity_curve)] = query_account(eng.gateway).equity
        /\ eng.symbol \in DOMAIN eng.gateway.positions

C8_Witness ==
    /\ engObs.outcome = "filled"
    /\ engPc = "running"
    /\ eng.equity_curve[Len(eng.equity_curve)] # engObs.equityBeforeOrder
    /\ eng.equity_curve[Len(eng.equity_curve)] = query_account(eng.gateway).equity

\* C9: after run() over n loaded ticks the equity curve has exactly n
\* entries, and entry i is the account equity at the end of the i-th tick.
C9_CurveMatchesTicks ==
    engPc = "done" =>
        /\ Len(eng.equity_curve) = Len(eng.ticks)
        /\ \A i \in 1..Len(eng.equity_curve) : eng.equity_curve[i] = engObs.equityAfter[i]

C9_Witness ==
    /\ engPc = "done"
    /\ engRuns = 2
    /\ Len(eng.equity_curve) = NumTicks
    /\ eng.equity_curve = engObs.equityAfter
    /\ \E i \in 1..Len(eng.equity_curve) : eng.equity_curve[i] # eng.equity_curve[1]

\* C10: an order rejected by the risk manager or by the gateway does not
\* abort the run (the remaining ticks are processed and run() returns Ok)
\* and increments none of total_trades, winning_trades, losing_trades.
C10_RejectionSwallowed ==
    /\ engObs.outcome \in Rejections =>
          /\ engPc # "failed"
          /\ Counters(eng) = engObs.before
    /\ (engPc = "done" /\ engObs.rejectedAt # {}) =>
          /\ engRes.ok
          /\ eng.current_index = Len(eng.ticks)
          /\ engObs.tickNo = Len(eng.ticks)
    /\ engObs.rejectedAt # {} => engPc \in {"running", "done"}

C10_Witness ==
    /\ engPc = "done"
    /\ engRes.ok
    /\ engObs.tickNo = Len(eng.ticks)
    /\ \E n \in engObs.rejectedAt : n < Len(eng.ticks)
    /\ engRes.total_trades > 0

\* C6: for identical ticks, parameter range, risk configuration and initial
\* balance, two sweeps return the same set of (params, result) pairs,
\* however the workers were scheduled.
C6_SweepsAgree ==
    \A a, b \in DOMAIN optResults : optResults[a] = optResults[b]

(***************************************************************************)
(* Gateway claims, continued                                               *)
(***************************************************************************)
\* trade_value + commission of the last submitted order, from the gateway's
\* slippage and commission rate
LastTotalCost ==
    LET trade_value == gwLast.order.quantity
                       * calculate_fill_price(gw, gwLast.price, gwLast.order.direction)
    IN  trade_value + calculate_commission(gw, trade_value)

LastValidBuy ==
    /\ gwLast.op = "submit_order"
    /\ gwLast.order.quantity > 0
    /\ gwLast.order.direction = DIRECTION_BUY

\* C11: a Buy on a flat or long position is rejected with InsufficientFunds
\* when trade_value + commission > balance (and only then); a Buy submitted
\* while the position is short is never rejected for lack of funds.
C11_FundsCheckedUnlessCovering ==
    LastValidBuy =>
        /\ gwLast.position_before >= 0 =>
              IF LastTotalCost > gwLast.balance_before
              THEN ~gwLast.ok /\ gwLast.err = "InsufficientFunds"
              ELSE gwLast.ok
        /\ gwLast.position_before < 0 => gwLast.ok

C11_Witness ==
    /\ LastValidBuy
    /\ gwLast.position_before < 0
    /\ LastTotalCost > gwLast.balance_before
    /\ gwLast.ok
    /\ gw.balance = gwLast.balance_before - LastTotalCost

(***************************************************************************)
(* L1 gateway claims                                                       *)
(***************************************************************************)
LastSide ==
    IF l1Last.order.direction = DIRECTION_BUY THEN l1.orderbook.asks ELSE l1.orderbook.bids

RECURSIVE Liquidity(_, _)
Liquidity(levels, ratio) ==
    IF levels = << >> THEN 0
    ELSE MulFrac(Head(levels).quantity, ratio) + Liquidity(Tail(levels), ratio)

\* the levels in front of the first empty one
RECURSIVE LeadingLevels(_)
LeadingLevels(levels) ==
    IF levels = << >> \/ level_is_empty(Head(levels)) THEN << >>
    ELSE <<Head(levels)>> \o LeadingLevels(Tail(levels))

FilledAgainst(available) ==
    IF l1Last.order.quantity <= available
    THEN /\ l1Last.result.filled_quantity = l1Last.order.quantity
         /\ l1Last.result.unfilled = 0
    ELSE /\ l1Last.result.unfilled > 0
         /\ l1Last.result.filled_quantity = available

\* C12 as stated: an order of at most the sum over the side's levels of
\* level_quantity * fill_ratio is filled completely, a larger one is filled
\* for exactly that sum.
C12_FillAgainstWholeSide ==
    l1Last.op = "execute_order" => FilledAgainst(Liquidity(LastSide, l1.fill_ratio))

\* C12 amended: the same for an order of positive quantity, with the sum
\* taken over the levels in front of the side's first empty level.
C12_FillAgainstLeadingLevels ==
    (l1Last.op = "execute_order" /\ l1Last.order.quantity > 0) =>
        FilledAgainst(Liquidity(LeadingLevels(LastSide), l1.fill_ratio))

C12_Witness ==
    /\ l1Last.op = "execute_order"
    /\ l1Last.order.quantity > Liquidity(LeadingLevels(LastSide), l1.fill_ratio)
    /\ Len(l1Last.result.fills) = 2
    /\ l1Last.result.unfilled > 0
    /\ l1Last.result.filled_quantity = 3

\* C13: for every order executed against the book, whatever the book and
\* the fill ratio, filled_quantity + unfilled = order.quantity.
C13_QuantityConserved ==
    l1Last.op = "execute_order" =>
        /\ l1Last.result.filled_quantity + l1Last.result.unfilled = l1Last.order.quantity
        /\ l1Last.result.filled_quantity = SumOver([k \in 1..Len(l1Last.result.fills) |->
                                                       l1Last.result.fills[k].quantity],
                                                   1..Len(l1Last.result.fills))

C13_Witness ==
    /\ l1Last.op = "execute_order"
    /\ l1Last.result.filled_quantity > 0
    /\ l1Last.result.unfilled > 0
    /\ Len(l1Last.result.fills) = 2
    /\ l1.fill_ratio = Frac(2, 2)

(***************************************************************************)
(* Emergency halt claims                                                   *)
(***************************************************************************)
\* C14: while the global halt flag is set, no engine submits an order to
\* its gateway: a tick processed with the flag set carries no submission.
C14_NoSubmitWhileHalted ==
    [][ (EMERGENCY_HALT /\ engObs'.tickNo # engObs.tickNo)
            => engObs'.tickNo \notin engObs'.submittedAt ]_vars

(***************************************************************************)
(* Risk manager claims, continued                                          *)
(***************************************************************************)
FirstFailing(gates) ==
    IF gates.capital # "Ok" THEN gates.capital
    ELSE IF gates.throttle # "Ok" THEN gates.throttle
    ELSE IF gates.position # "Ok" THEN gates.position
    ELSE gates.drawdown

\* C15: check returns the error of the first gate that fails in the order
\* capital, throttle, position cap, drawdown, and Ok when none fails.
C15_FirstFailingGateReported ==
    rmLast.op = "check" => rmLast.result = FirstFailing(rmLast.gates)

C15_Witness ==
    /\ rmLast.op = "check"
    /\ rmLast.gates.capital = "Ok"
    /\ rmLast.gates.throttle = "ThrottleExceeded"
    /\ rmLast.gates.position = "PositionLimitExceeded"
    /\ rmLast.gates.drawdown = "MaxDrawdownExceeded"
    /\ rmLast.result = "ThrottleExceeded"
    /\ rm.config.max_order_rate > 0

\* C16: with max_order_rate >= 1, a check_throttle call made when the oldest
\* recorded order is more than one second old succeeds and records the
\* current time, also after a ThrottleExceeded rejection.
C16_WindowSlides ==
    ( /\ rmLast.op = "check_throttle"
      /\ rm.config.max_order_rate >= 1
      /\ rmLast.oldest >= 0
      /\ rmLast.at - rmLast.oldest > ClockUnitsPerSecond )
    => /\ rmLast.result = "Ok"
       /\ rm.order_timestamps # << >>
       /\ rm.order_timestamps[Len(rm.order_timestamps)] = rmLast.at
       /\ rmLast.oldest # Head(rm.order_timestamps)

C16_Witness ==
    /\ rmLast.op = "check_throttle"
    /\ rmLast.afterRejection
    /\ rm.config.max_order_rate = 2
    /\ rmLast.oldest >= 0
    /\ rmLast.at - rmLast.oldest > ClockUnitsPerSecond
    /\ rmLast.result = "Ok"
    /\ rm.order_timestamps[Len(rm.order_timestamps)] = rmLast.at

(***************************************************************************)
(* Event bus claims, continued                                             *)
(***************************************************************************)
\* What a subscriber has received followed by what waits in its channel.
Stream(id) == received[id] \o chans[id].queue

\* C17: a subscriber receives the events of the single publisher in the
\* order in which they were published (payloads are publication numbers).
C17_OrderPreserved ==
    \A id \in DOMAIN chans :
        \A i, j \in 1..Len(Stream(id)) :
            i < j => Stream(id)[i].payload < Stream(id)[j].payload

C17_Witness ==
    \E id \in DOMAIN chans :
        /\ Len(received[id]) >= 2
        /\ chans[id].queue # << >>
        /\ received[id][1].payload < received[id][2].payload
        /\ received[id][2].payload < chans[id].queue[1].payload

\* C18: a publish that meets a full channel of a matching subscriber
\* returns without delivering to it, adds exactly one to events_dropped for
\* each such subscriber, and still delivers to the other matching
\* subscribers.
C18_FullChannelDrops ==
    busObs.lastFull > 0 =>
        /\ busObs.lastDropped = busObs.lastFull
        /\ busObs.lastFullUntouched
        /\ busObs.lastOpenGot
        /\ busObs.lastDelivered = busObs.lastOpen

C18_Witness ==
    /\ busObs.lastFull = 1
    /\ busObs.lastOpen = 1
    /\ busObs.lastDropped = 1
    /\ busObs.lastDelivered = 1
    /\ stats(bus).events_dropped = 1

(***************************************************************************)
(* Timer claims, continued                                                 *)
(***************************************************************************)
\* The scheduled firing times of a timer: t0 + delay for a one-shot timer,
\* t0 + j * interval (j >= 1) for a repeating one.
ScheduledTimes(o) ==
    IF o.repeating THEN {o.t0 + j * o.interval : j \in 1..(MaxTime + 1)}
    ELSE {o.t0 + o.interval}

\* C19: process(t) emits no event for a timer whose next trigger time is
\* later than t, and the number of events emitted for a timer never exceeds
\* the number of its scheduled firing times that are <= the largest time
\* handed to process so far.
C19_NoOverFire ==
    \A id \in DOMAIN tmObs :
        LET o == tmObs[id]
        IN  /\ ~o.early
            /\ o.emitted <= Cardinality({t \in ScheduledTimes(o) : t <= o.processedTo})

C19_Witness ==
    \E id \in DOMAIN tmObs :
        LET o == tmObs[id]
        IN  /\ o.repeating /\ o.interval = 1 /\ ~o.cancelled
            /\ o.emitted = 2
            /\ o.processedTo = 5
            /\ o.overran
            /\ ~o.early

\* C20: a one-shot timer scheduled with delay d at manager time t0 (and not
\* cancelled) has produced no event while every process time was below
\* t0 + d, exactly one event from the first process(t) with t >= t0 + d on,
\* and its entry is gone after that.
C20_OneShotFiresOnce ==
    \A id \in DOMAIN tmObs :
        LET o == tmObs[id]
        IN  (~o.repeating /\ ~o.cancelled) =>
                IF o.processedTo >= o.t0 + o.interval
                THEN o.emitted = 1 /\ FindTimer(tm.timers, id) = 0
                ELSE o.emitted = 0 /\ FindTimer(tm.timers, id) > 0

C20_Witness ==
    \E id \in DOMAIN tmObs :
        LET o == tmObs[id]
        IN  /\ ~o.repeating /\ ~o.cancelled
            /\ o.t0 = 1 /\ o.interval = 2
            /\ o.processedTo = 4
            /\ tm.current_time_ms = 0
            /\ o.emitted = 1
            /\ FindTimer(tm.timers, id) = 0

\* The ids of the entries that active_count counts.
ActiveIds(m) == {m.timers[i].id : i \in {k \in 1..Len(m.timers) : m.timers[k].active}}

\* C21: once cancel(id) has returned true, no later process call emits an
\* event for that timer id, and active_count does not count the timer.
C21_CancelledStaysSilent ==
    \A id \in DOMAIN tmObs :
        tmObs[id].cancelOk =>
            /\ ~tmObs[id].lateEmit
            /\ id \notin ActiveIds(tm)
            /\ active_count(tm) = Cardinality(ActiveIds(tm) \ {id})

C21_Witness ==
    \E id, other \in DOMAIN tmObs :
        /\ tmObs[id].cancelOk
        /\ tmObs[id].emitted = 0
        /\ tmObs[id].processedAfterCancel >= tmObs[id].t0 + tmObs[id].interval
        /\ other # id
        /\ tmObs[other].emitted > 0
        /\ active_count(tm) = 1

(***************************************************************************)
(* Event bus claims: unsubscribe                                           *)
(***************************************************************************)
\* C22: after unsubscribe(id) has returned true, no later publish delivers
\* to that subscription, the subscriber count went down by one at that call,
\* and no further unsubscribe(id) returns true.
C22_UnsubscribeIsFinal ==
    /\ ~busObs.lateDelivery
    /\ busObs.countDropsByOne
    /\ ~busObs.unsubscribedTwice
    /\ DOMAIN busObs.unsubscribed \cap SubIds(bus) = {}

C22_Witness ==
    /\ busObs.publishedAfterUnsub
    /\ busObs.lastDelivered = 1
    /\ subscriber_count(bus) = 1
    /\ \E id \in DOMAIN busObs.unsubscribed : chans[id].queue = << >> /\ received[id] # << >>

(***************************************************************************)
(* Warmup claims                                                           *)
(***************************************************************************)
\* C23: a manager created with warmup_bars = k >= 1 is not warmed up after
\* fewer than k ticks and is warmed up after k or more ticks (so it turns
\* true on the k-th tick and stays true), tick returns that same flag, and
\* a manager created with k <= 0 is warmed up from construction.
C23_WarmupCompletesAtBarK ==
    /\ is_warmed_up(wm) = (wmObs.ticks >= wmK)
    /\ wmObs.op = "tick" => wmObs.ret = is_warmed_up(wm)

C23_Witness ==
    /\ wmK = 3
    /\ wmObs.ticks = 3
    /\ wmObs.op = "tick"
    /\ wmObs.ret
    /\ wm.current_bar = 3
    /\ wm.warmup_complete_timestamp = 20

(***************************************************************************)
(* Engine claims: the reported start bar                                   *)
(***************************************************************************)
\* C24: the BacktestResult that run() returns reports actual_start_bar equal
\* to the warmup_bars of the engine's strategy parameters.
C24_StartBarIsWarmupBars ==
    (engPc = "done" /\ engRes.ok) => engRes.actual_start_bar = eng.params.warmup_bars

(***************************************************************************)
(* Gateway claims: the worked example                                      *)
(***************************************************************************)
S3Buy == S3Call("submit_order", OrderRequest("BTCUSDT", 1, DIRECTION_BUY), 50000)

S3Reprice == S3Call("update_price", NoOrder, 51000)

\* What the example says of the buy: one fill at 50 500 with commission 0,
\* and balance 49 500.
S3BuyFilled ==
    s3Trace = <<S3Buy>> =>
        /\ Len(gw.pending_fills) = 1
        /\ gw.pending_fills[1].price = 50500
        /\ gw.pending_fills[1].commission = 0
        /\ query_account(gw).balance = 49500

\* C25 as stated: buying 1 at 50 000 fills at 50 500 with commission 0 and
\* leaves balance 49 500, and after the price update to 51 000 the reported
\* equity is 51 000.
C25_EquityIs51000 ==
    /\ S3BuyFilled
    /\ s3Trace = <<S3Buy, S3Reprice>> => query_account(gw).equity = 51000

\* C25, amended: buying 1 at 50 000 fills at 50 500 with commission 0 and
\* leaves balance 49 500, and after the price update to 51 000 the reported
\* equity is 50 000 (balance 49 500 plus unrealized (51 000 - 50 500) * 1).
C25_EquityIs50000 ==
    /\ S3BuyFilled
    /\ s3Trace = <<S3Buy, S3Reprice>> =>
            /\ query_account(gw).equity = 50000
            /\ query_account(gw).balance = 49500

C25_Witness ==
    /\ s3Trace = <<S3Buy, S3Reprice>>
    /\ gw.current_prices["BTCUSDT"] = 51000
    /\ gw.positions["BTCUSDT"].quantity = 1
    /\ gw.positions["BTCUSDT"].average_price = 50500

(***************************************************************************)
(* Gateway claims: draining the fills                                      *)
(***************************************************************************)
\* C26: get_fills returns exactly one fill for each order accepted since the
\* previous get_fills call, in submission order, each carrying the order id
\* that its submit_order call returned, and no fill is returned by two
\* get_fills calls.
C26_FillsDrainedOnce ==
    /\ ~gwLast.redelivered
    /\ gwLast.op = "get_fills" =>
            /\ Len(gwLast.fills) = Len(gwLast.expected)
            /\ \A i \in 1..Len(gwLast.fills) :
                    gwLast.fills[i].order_id = gwLast.expected[i]
            /\ gw.pending_fills = << >>

C26_Witness ==
    /\ gwLast.op = "get_fills"
    /\ Len(gwLast.fills) = 1
    /\ gwLast.expected = <<2>>
    /\ gwLast.fills[1].order_id = 2
    /\ gwLast.drained = {1, 2}

(***************************************************************************)
(* Strategy claims                                                         *)
(***************************************************************************)
\* C27: over any price sequence the non-None signals of the strategy
\* alternate: no Buy follows a Buy without a Sell between them, and no Sell
\* follows a Sell without a Buy between them.
C27_SignalsAlternate == ~stratObs.repeated

(***************************************************************************)
(* Data loader claims                                                      *)
(***************************************************************************)
\* C28: for three non-empty columns of equal length, every tick that the
\* cleansing emits has a finite price > 0 and a finite volume >= 0, and the
\* timestamps of the emitted ticks are strictly increasing.
C28_EmittedTicksValid ==
    ( /\ dlPc = "loaded"
      /\ dlIn.timestamps # << >>
      /\ Len(dlIn.timestamps) = Len(dlIn.prices)
      /\ Len(dlIn.prices) = Len(dlIn.volumes) )
    => /\ dlOut.ok
       /\ \A i \in 1..Len(dlOut.ticks) :
              /\ is_finite(dlOut.ticks[i].price) /\ dlOut.ticks[i].price.v > 0
              /\ is_finite(dlOut.ticks[i].volume) /\ dlOut.ticks[i].volume.v >= 0
       /\ \A i, j \in 1..Len(dlOut.ticks) :
              i < j => dlOut.ticks[i].timestamp < dlOut.ticks[j].timestamp

C28_Witness ==
    /\ dlPc = "loaded"
    /\ dlOut.ok
    /\ Len(dlIn.timestamps) = 3
    /\ Len(dlOut.ticks) = 2
    /\ dlIn.timestamps = <<1, 1, 2>>
    /\ dlIn.prices = <<NaN, Finite(10), Finite(12)>>
    /\ dlOut.anomaly_indices = <<2>>

(***************************************************************************)
(* Optimizer claims: progress                                              *)
(***************************************************************************)
\* C29: what progress() reports never exceeds the total number of parameter
\* combinations, and from one step of a sweep to the next it does not
\* decrease.
C29_ProgressMonotoneAndBounded ==
    /\ [](progress(opt).completed <= progress(opt).total)
    /\ [][(optPc = "sweeping" /\ optPc' = "sweeping")
            => progress(opt').completed >= progress(opt).completed]_vars

C29_Witness ==
    /\ optPc = "sweeping"
    /\ Len(optResults) = 1
    /\ progress(opt).total = 2
    /\ progress(opt).completed = 2
    /\ \E i \in DOMAIN tasks : tasks[i].result.ok

(***************************************************************************)
(* Persistence claims                                                      *)
(***************************************************************************)
\* C30: save_position(p, s) replaces exactly the stored positions that have
\* both session s and the symbol of p, and leaves every other stored
\* position as it was.
C30_UpsertOnSessionAndSymbol ==
    dbLast.op = "save_position" =>
        db.positions =
            { r \in dbLast.before :
                ~(r.session_date = dbLast.session_date /\ r.symbol = dbLast.position.symbol) }
            \cup {PositionRow(dbLast.position, dbLast.session_date)}

(***************************************************************************)
(* Logger claims                                                           *)
(***************************************************************************)
\* C31: a log call that starts after clear_log_callback has returned, and
\* before a new callback is registered, completes without invoking a
\* callback that was registered before that clear.
C31_ClearedCallbackNotInvoked == ~logObs.stale

C31_Witness ==
    /\ logObs.invocations >= 1
    /\ logObs.last.startedCleared
    /\ logObs.last.invoked = 2
    /\ logObs.regs = 2
    /\ \E t \in LogThreads : logPc[t] = "loaded" /\ logPtr[t].reg = 1

(***************************************************************************)
(* Risk manager: rejected checks                                           *)
(***************************************************************************)
\* C32: a RiskManager::check call that rejects an order leaves the risk
\* manager's state unchanged: after a rejected check the throttle window is
\* what it was before the call, so an order rejected by the position-cap or
\* drawdown gate adds no entry to it.
C32_RejectedCheckLeavesState ==
    (rmLast.op = "check" /\ rmLast.result # "Ok")
        => rm.order_timestamps = rmLast.before

(***************************************************************************)
(* Engine runs as functions of their inputs                                *)
(***************************************************************************)
\* C33: the result of an engine run is a function of its inputs only: a run
\* gives the result and the equity curve of the run on the same engine and
\* ticks in which no wall-clock time passes between ticks, however much
\* time did pass between its own ticks.
C33_RunIndependentOfWallClock ==
    engPc = "done" =>
        LET same == RunLoopAt(engObs.start, engObs.startWall)
        IN  /\ eng.equity_curve = same.equity_curve
            /\ engRes = RunResult(same)

\* C34: run() called a second time on the same engine and data starts from
\* the initial balance, with no open position and an empty throttle window,
\* and returns the BacktestResult the first call returned.
C34_SecondRunStartsAfresh ==
    engRuns = 2 =>
        /\ engObs.start.gateway.balance = engObs.start.initial_balance
        /\ engObs.start.gateway.positions = EmptyMap
        /\ engObs.start.risk_manager.order_timestamps = << >>
        /\ engPc = "done" => engRes = engObs.prev

(***************************************************************************)
(* Gateways: rejected and accepted orders                                  *)
(***************************************************************************)
\* C35: a submit_order call that returns an error (InvalidOrder or
\* InsufficientFunds) leaves the gateway unchanged, balance, positions,
\* pending fills and next order id included; of the simple gateway and of
\* the L1 gateway.
C35_RejectedOrderLeavesGateway ==
    /\ (gwLast.op = "submit_order" /\ ~gwLast.ok) => gwLast.unchanged
    /\ (l1Last.op = "submit_order" /\ ~l1Last.ok) => l1Last.unchanged

C35_Witness ==
    /\ gwLast.op = "submit_order" /\ gwLast.err = "InsufficientFunds"
    /\ gw.pending_fills # << >> /\ gw.next_order_id = 2

C35_WitnessL1 ==
    /\ l1Last.op = "submit_order" /\ l1Last.err = "InsufficientFunds"
    /\ l1.pending_fills # << >> /\ l1.next_order_id = 2

\* C39: when the side of the L1 book an accepted order consumes has a level
\* with quantity, the fill recorded for the order is not the fallback fill
\* at current_price and its quantity is at most the sum of fill_ratio *
\* level quantity over that side's levels.
SideLiquidity(side, ratio) ==
    SumOver([i \in 1..Len(side) |-> MulFrac(side[i].quantity, ratio)], 1..Len(side))

SideNonEmpty(side) == \E i \in 1..Len(side) : ~level_is_empty(side[i])

C39_FillWithinBookLiquidity ==
    (l1Last.op = "submit_order" /\ l1Last.ok /\ SideNonEmpty(l1Last.side)) =>
        /\ ~l1Last.fallback
        /\ l1Last.fill <= SideLiquidity(l1Last.side, l1Last.ratio)

\* C40: the simple gateway's cash balance is never negative: from a
\* non-negative initial balance, after any accepted buys and sells (short
\* sales and covering buys included) and price updates, balance >= 0.
C40_BalanceNeverNegative == gw.balance >= 0

(***************************************************************************)
(* Latency statistics                                                      *)
(***************************************************************************)
\* The means (rounded down, as the u64 division does) of n of the latencies
\* handed to record.
MeansOf(recorded, n) ==
    { SumOver([i \in 1..Len(recorded) |-> recorded[i]], S) \div n :
        S \in { T \in SUBSET (1..Len(recorded)) : Cardinality(T) = n } }

\* C36: a get_stats call that runs while record and reset calls run returns
\* a consistent snapshot: when the reported count is greater than 0,
\* min <= avg <= max, and avg is the mean of as many recorded samples as the
\* count reports.
C36_StatsSnapshotConsistent ==
    statOut.sample_count > 0 =>
        /\ statOut.min_ns <= statOut.avg_ns
        /\ statOut.avg_ns <= statOut.max_ns
        /\ statOut.avg_ns \in MeansOf(latObs.recorded, statOut.sample_count)

(***************************************************************************)
(* Termination of generate_combinations                                    *)
(***************************************************************************)
\* C37: generate_combinations terminates for every ParameterRange, ranges
\* with a zero or negative step included: every call sooner or later
\* returns (or, at worst, stops by a panic or a failed allocation).
C37_GenerateCombinationsTerminates == <>(gcPc \in {"done", "panicked", "aborted"})

\* With positive steps the loops return what generate_combinations lists.
GcAgreesWithRecursion ==
    ( /\ gcPc = "done"
      /\ gcIn.short_ma_range.step > 0 /\ gcIn.long_ma_range.step > 0
      /\ gcIn.position_size_range.some => gcIn.position_size_range.step > 0 )
        => Len(gcLocal.combinations) = Len(generate_combinations(gcIn))

(***************************************************************************)
(* Event-bus statistics                                                    *)
(***************************************************************************)
\* C38 as stated: after any sequence of publishes, delivered + dropped is
\* the number of (published event, registered subscriber whose filter
\* matches it) pairs, also when a subscriber's receiving end was dropped
\* without unsubscribe.
C38_StatsConserved ==
    stats(bus).events_delivered + stats(bus).events_dropped = busObs.matched

\* C38 amended: after any sequence of publishes, delivered + dropped is the
\* number of (published event, registered subscriber whose filter matches
\* it) pairs in which the subscriber's receiving end was alive at the
\* publish.
C38_StatsConservedLive ==
    stats(bus).events_delivered + stats(bus).events_dropped = busObs.matchedLive

C38_Witness ==
    /\ stats(bus).events_dropped >= 1
    /\ stats(bus).events_delivered >= 1
    /\ busObs.matchedLive < busObs.matched
    /\ stats(bus).events_delivered + stats(bus).events_dropped = busObs.matchedLive

====
